---------------------------- MODULE Spec2Model ----------------------------
(***************************************************************************)
(* The ingestion pipeline of log-manager: the token-bucket limiter, the    *)
(* unmatched-classification ring, the TCP/UDP batch consumers, the billing *)
(* classification of ProcessLogBatch and the retention job.                *)
(*                                                                         *)
(* Strings are sequences of one-character strings, so that Split,          *)
(* TrimSpace, Contains and HasSuffix are computed as the Go code computes  *)
(* them.  Time is counted in ticks of 1/TicksPerSec second.                *)
(***************************************************************************)
EXTENDS Integers, Sequences, FiniteSets, TLC

VARIABLES
  now,        \* the wall clock, in ticks
  limiter,    \* bucket name -> RateLimiter {rate, capacity, tokens, lastUpdate}
  calls,      \* the last Allow calls of the default bucket (history)
  lastReq,    \* the last request the dual middleware handled (history)
  ring,       \* the unmatched queue: {items, order, maxSize}
  ringPrev,   \* the last Add call: its arguments and the queue before it (history)
  born,       \* key -> the number of the Add that last inserted it (history)
  nAdds,      \* the number of Add calls so far that were not no-ops (history)
  flushSize,  \* transport -> cfg.FlushSize
  ch,         \* transport -> the buffered channel between listener and consumer
  batch,      \* transport -> the batch the consumer is filling
  txn,        \* worker -> the ProcessLogBatch call that is at its transaction
  db,         \* the tables billing_entries, log_entries, tag_log_counts
  ret,        \* the retention job: its position and the page it holds
  nEvents,    \* the number of events received so far
  outcome,    \* accepted event id -> the outcomes recorded for it (history)
  flushed,    \* the events whose flush committed (history)
  billed,     \* billing key -> the increments of committed flushes (history)
  lastCall,   \* the last ProcessLogBatch call that returned (history)
  touched,    \* ring key -> the number of the Add that last touched it (history)
  snap,       \* the last Snapshot call: its limit and its result
  cfgTable,   \* the rows of billing_configs, in id order
  cfgSecret,  \* cfg.Secret of the TCP and UDP servers
  stop,       \* transport -> stopChan is closed
  exited,     \* transport -> consumeLoop has returned
  conn,       \* connection -> where its handleConn is and the events it holds
  udpRecv,    \* where recvLoop is
  lastRx,     \* the last TCP frame read that carried no event (history)
  handed,     \* the events handed to the processor by consumers (history)
  deq,        \* the events each consumer took off its channel (history)
  validTcp,   \* the events TCP handlers validated (history)
  bcc,        \* the BillingConfigCache: indexed, loadedAt and the holder of mu
  tagDb,      \* the tables tags and tag_projects
  reg,        \* the tag registry (tagcache.Cache): set and the holder of mu
  proc,       \* process -> where it is in its call, and its locals
  job,        \* the retention job: its configuration, position and passes
  metricsTbl, \* the rows of metrics_entries
  wg          \* the servers started, where acceptLoop is, the Stop calls returned,
              \* and the events each listener held at its stop signal (history)

pipeVars == <<flushSize, ch, batch, txn, db, ret, nEvents, outcome, flushed, billed,
              lastCall>>

wireVars == <<cfgSecret, stop, exited, conn, udpRecv, lastRx, handed, deq, validTcp>>

cacheVars == <<bcc, tagDb, reg, proc>>

retainVars == <<job, metricsTbl>>

auxVars == <<touched, snap, cfgTable, wireVars, cacheVars, retainVars, wg>>

vars == <<now, limiter, calls, lastReq, ring, ringPrev, born, nAdds, pipeVars, auxVars>>

limVars == <<limiter, calls, lastReq>>
ringHist == <<ringPrev, born, nAdds>>

----------------------------------------------------------------------------
(* Bounds of the model *)

MaxRate == 2
MaxCap == 2
SubTicks == 2
MaxTime == 6
RingCap == 2
DayLen == 2
MaxAdds == 4
MaxEvents == 2
BufSize == 1
MaxFlush == 2
TtlTicks == 1
IdxMaxTime == 2
MaxEdits == 1
MaxPasses == 2
PageRows == 2

\* program constants
defaultMaxSize == 5000
SampleMax == 500
MaxBatchPerCall == 100
retentionBatchSize == 10000

----------------------------------------------------------------------------
(* strings *)

IsSpace(c) == c \in {" ", "\t", "\n", "\r"}

\* strings.TrimSpace
RECURSIVE TrimSpace(_)
TrimSpace(s) ==
  IF s = <<>> THEN s
  ELSE IF IsSpace(s[1]) THEN TrimSpace(Tail(s))
  ELSE IF IsSpace(s[Len(s)]) THEN TrimSpace(SubSeq(s, 1, Len(s) - 1))
  ELSE s

\* strings.Split(s, sep) for a one-character separator
RECURSIVE Split(_, _)
Split(s, sep) ==
  IF \E i \in 1..Len(s) : s[i] = sep
  THEN LET i == CHOOSE k \in 1..Len(s) :
                  s[k] = sep /\ \A j \in 1..(k - 1) : s[j] # sep
       IN <<SubSeq(s, 1, i - 1)>> \o Split(SubSeq(s, i + 1, Len(s)), sep)
  ELSE <<s>>

\* strings.Contains
Contains(s, sub) ==
  \E i \in 0..(Len(s) - Len(sub)) : SubSeq(s, i + 1, i + Len(sub)) = sub

\* strings.HasSuffix
HasSuffix(s, suffix) ==
  /\ Len(s) >= Len(suffix)
  /\ SubSeq(s, Len(s) - Len(suffix) + 1, Len(s)) = suffix

----------------------------------------------------------------------------
(* middleware/ratelimit.go *)

RECURSIVE Fact(_)
Fact(n) == IF n <= 1 THEN 1 ELSE n * Fact(n - 1)

\* ticks per second: every rate 1..MaxRate divides it
TicksPerSec == Fact(MaxRate) * SubTicks

Buckets == {"default", "batch"}

NewRateLimiter(rate, capacity, t) ==
  LET cap == IF capacity <= 0 THEN rate ELSE capacity
  IN [rate |-> rate, capacity |-> cap, tokens |-> cap, lastUpdate |-> t]

\* the lazy refill of Allow: int(elapsed.Seconds() * float64(rl.rate))
TokensToAdd(rl, t) == ((t - rl.lastUpdate) * rl.rate) \div TicksPerSec

RefillNoStamp(rl, t) ==
  LET add == TokensToAdd(rl, t)
  IN IF add > 0
     THEN [rl EXCEPT !.tokens = IF rl.tokens + add > rl.capacity
                                THEN rl.capacity ELSE rl.tokens + add]
     ELSE rl

Refill(rl, t) ==
  LET add == TokensToAdd(rl, t)
  IN IF add > 0
     THEN [rl EXCEPT !.tokens = IF rl.tokens + add > rl.capacity
                                THEN rl.capacity ELSE rl.tokens + add,
                     !.lastUpdate = t]
     ELSE rl

\* RateLimiter.Allow, the whole body under rl.mu: the limiter afterwards
\* and the answer
Allow(rl, t) ==
  LET r == Refill(rl, t)
  IN IF r.tokens > 0
     THEN [rl |-> [r EXCEPT !.tokens = r.tokens - 1], ok |-> TRUE]
     ELSE [rl |-> r, ok |-> FALSE]

\* DualRateLimitMiddleware: the paths of the two batch-ingest endpoints
PrefixPath == <<"/","l","o","g","/","m","a","n","a","g","e","r">>
ApiV1 == <<"/","a","p","i","/","v","1">>
LogsSeg == <<"/","l","o","g","s">>
MetricsSeg == <<"/","m","e","t","r","i","c","s">>
BatchSeg == <<"/","b","a","t","c","h">>
LogsBatchPath == ApiV1 \o LogsSeg \o BatchSeg
MetricsBatchPath == ApiV1 \o MetricsSeg \o BatchSeg

\* the request paths the model sends
Paths ==
  { PrefixPath \o LogsBatchPath,
    PrefixPath \o MetricsBatchPath,
    PrefixPath \o ApiV1 \o LogsSeg,
    PrefixPath \o LogsBatchPath \o <<"/">>,
    PrefixPath \o LogsBatchPath \o <<"/","i","d">>,
    PrefixPath \o ApiV1 \o MetricsSeg }

UseBatchContains(path) ==
  Contains(path, LogsBatchPath) \/ Contains(path, MetricsBatchPath)

\* useBatch of DualRateLimitMiddleware
UseBatch(path) ==
  HasSuffix(path, LogsBatchPath) \/ HasSuffix(path, MetricsBatchPath)

\* the limiter the middleware picks for a path
LimiterFor(path) == IF UseBatch(path) THEN "batch" ELSE "default"

Max2(a, b) == IF a > b THEN a ELSE b

\* the Allow calls the history keeps: one burst, the call after the wait
\* and the one following it
HistLen == Max2(MaxRate, MaxCap) + 3

LastN(s, n) == IF Len(s) <= n THEN s ELSE SubSeq(s, Len(s) - n + 1, Len(s))

----------------------------------------------------------------------------
(* unmatchedqueue *)

NUL == "\\0"

\* key(tag, ruleName) = tag + "\x00" + ruleName
Key(tag, ruleName) == tag \o <<NUL>> \o ruleName

\* New(maxSize)
NewQueue(maxSize) ==
  [items |-> <<>>, order |-> <<>>,
   maxSize |-> IF maxSize <= 0 THEN defaultMaxSize ELSE maxSize]

\* sample := logLine, cut to 500 characters plus "..."
Sample(logLine) ==
  IF Len(logLine) > SampleMax
  THEN SubSeq(logLine, 1, SampleMax) \o <<".", ".", ".">>
  ELSE logLine

NewItem(tag, ruleName, sample, t) ==
  [tag |-> tag, rule_name |-> ruleName, log_line_sample |-> sample,
   count |-> 1, last_seen |-> t]

TouchItemNoCount(it, sample, t) ==
  [it EXCEPT !.log_line_sample = sample, !.last_seen = t]

\* the branch of Add for a key already in q.items
TouchItem(it, sample, t) ==
  [it EXCEPT !.count = it.count + 1, !.log_line_sample = sample, !.last_seen = t]

EvictNewest(q) ==
  IF Len(q.order) >= q.maxSize
  THEN [q EXCEPT !.order = SubSeq(q.order, 1, Len(q.order) - 1),
                 !.items = [x \in (DOMAIN q.items) \ {q.order[Len(q.order)]} |->
                              q.items[x]]]
  ELSE q

\* the eviction of Add: past capacity the first key of q.order goes
EvictOldest(q) ==
  IF Len(q.order) >= q.maxSize
  THEN [q EXCEPT !.order = Tail(q.order),
                 !.items = [x \in (DOMAIN q.items) \ {q.order[1]} |-> q.items[x]]]
  ELSE q

\* Queue.Add, the whole body (q.mu held from the lookup to the append)
QueueAdd(q, tag, ruleName, logLine, t) ==
  IF tag = <<>> /\ ruleName = <<>> THEN q
  ELSE
    LET k == Key(tag, ruleName)
        sample == Sample(logLine)
    IN IF k \in DOMAIN q.items
       THEN [q EXCEPT !.items = [q.items EXCEPT ![k] = TouchItem(q.items[k], sample, t)]]
       ELSE LET e == EvictOldest(q)
                it == NewItem(tag, ruleName, sample, t)
            IN [e EXCEPT !.items = [x \in (DOMAIN e.items) \cup {k} |->
                                      IF x = k THEN it ELSE e.items[x]],
                         !.order = Append(e.order, k)]

----------------------------------------------------------------------------
(* handler: the billing classification of ProcessLogBatch *)

\* parseLogTags: split on commas, trim, drop the empty parts
parseLogTags(s) ==
  IF s = <<>> THEN <<>>
  ELSE LET parts == Split(s, ",")
           trimmed == [i \in 1..Len(parts) |-> TrimSpace(parts[i])]
           NonEmpty(t) == t # <<>>
       IN SelectSeq(trimmed, NonEmpty)

SeqToSet(q) == {q[i] : i \in 1..Len(q)}

\* billingTagContains: cfg.BillingTag (comma-joined) lists tag
billingTagContains(billingTagStr, tag) ==
  LET t == TrimSpace(tag)
      parts == Split(billingTagStr, ",")
  IN t # <<>> /\ \E i \in 1..Len(parts) : TrimSpace(parts[i]) = t

anyLogTagInBillingTag(logTags, billingTagStr) ==
  \E i \in 1..Len(logTags) : billingTagContains(billingTagStr, logTags[i])

\* buildIndexedBillingConfig: the rules by match_type, in id order
buildIndexedBillingConfig(configs) ==
  LET IsTag(c) == c.match_type = "tag"
      IsRule(c) == c.match_type = "rule_name"
      IsLine(c) == c.match_type = "log_line_contains"
  IN [byTag |-> SelectSeq(configs, IsTag),
      byRuleName |-> SelectSeq(configs, IsRule),
      byLogLineContains |-> SelectSeq(configs, IsLine),
      billingTagSet |-> {}]

\* loadBillingTagSet: the names of the tags of the billing project
loadBillingTagSet(projects, tags) ==
  LET billing == {p \in projects : p.type = "billing"}
  IN IF billing = {} THEN {}
     ELSE LET pid == (CHOOSE p \in billing : \A o \in billing : p.id <= o.id).id
          IN {TrimSpace(t.name) : t \in {x \in tags : x.project_id = pid /\ x.name # <<>>}}

\* isBillingTag: some tag of the event is in the billing-tag set
isBillingTag(tagStr, idx) ==
  LET tags == parseLogTags(tagStr)
  IN Len(tags) # 0 /\ \E i \in 1..Len(tags) : tags[i] \in idx.billingTagSet

\* the three tier predicates of matchBillingConfigs
TagTierAnyTag(cfg, logTags) ==
  /\ anyLogTagInBillingTag(logTags, cfg.billing_tag)
  /\ \E i \in 1..Len(logTags) :
       cfg.match_value = logTags[i] \/ Contains(logTags[i], cfg.match_value)

TagTierMatches(cfg, logTags) ==
  /\ anyLogTagInBillingTag(logTags, cfg.billing_tag)
  /\ \E i \in 1..Len(logTags) :
       /\ billingTagContains(cfg.billing_tag, logTags[i])
       /\ (cfg.match_value = logTags[i] \/ Contains(logTags[i], cfg.match_value))

RuleTierMatches(cfg, logTags, req) ==
  /\ anyLogTagInBillingTag(logTags, cfg.billing_tag)
  /\ Contains(req.rule_name, cfg.match_value)

LineTierMatches(cfg, logTags, req) ==
  /\ anyLogTagInBillingTag(logTags, cfg.billing_tag)
  /\ Contains(req.log_line, cfg.match_value)

\* matchBillingConfigs: every matching rule, tier by tier
matchBillingConfigs(req, idx) ==
  LET logTags == parseLogTags(req.tag)
      T(cfg) == TagTierMatches(cfg, logTags)
      R(cfg) == RuleTierMatches(cfg, logTags, req)
      L(cfg) == LineTierMatches(cfg, logTags, req)
  IN IF Len(logTags) = 0 THEN <<>>
     ELSE SelectSeq(idx.byTag, T) \o SelectSeq(idx.byRuleName, R)
            \o SelectSeq(idx.byLogLineContains, L)

\* time.Unix(ts, 0).Format("2006-01-02"): the calendar day of the timestamp
Digits == <<"0", "1", "2", "3", "4", "5", "6", "7", "8", "9">>
DateOf(ts) == <<"d", Digits[((ts \div DayLen) % 10) + 1]>>

\* key := date + "|" + cfg.BillKey + "|" + tag
AggKey(date, billKey, tag) == date \o <<"|">> \o billKey \o <<"|">> \o tag

\* strings.SplitN(s, sep, n)
RECURSIVE SplitN(_, _, _)
SplitN(s, sep, n) ==
  IF n <= 1 \/ ~(\E i \in 1..Len(s) : s[i] = sep) THEN <<s>>
  ELSE LET i == CHOOSE k \in 1..Len(s) :
                  s[k] = sep /\ \A j \in 1..(k - 1) : s[j] # sep
       IN <<SubSeq(s, 1, i - 1)>> \o SplitN(SubSeq(s, i + 1, Len(s)), sep, n - 1)

\* the loop of Snapshot: from the newest place of q.order down, until n items
RECURSIVE SnapshotFrom(_, _, _, _)
SnapshotFrom(q, i, n, result) ==
  IF i < 1 \/ Len(result) >= n THEN result
  ELSE SnapshotFrom(q, i - 1, n,
                    IF q.order[i] \in DOMAIN q.items
                    THEN Append(result, q.items[q.order[i]])
                    ELSE result)

\* Snapshot(limit): n := len(q.order); if limit > 0 && n > limit { n = limit }
Snapshot(q, limit) ==
  LET n == IF limit > 0 /\ Len(q.order) > limit THEN limit ELSE Len(q.order)
  IN SnapshotFrom(q, Len(q.order), n, <<>>)

\* the reference tables the index is built from
TagProjects == {[id |-> 1, type |-> "billing"], [id |-> 2, type |-> "normal"]}

TagsTable ==
  {[name |-> <<"b">>, project_id |-> 1], [name |-> <<"c">>, project_id |-> 1],
   [name |-> <<"o">>, project_id |-> 2]}

BillingConfigs ==
  << [id |-> 1, bill_key |-> <<"k">>, billing_tag |-> <<"b">>,
      match_type |-> "tag", match_value |-> <<"b">>, unit_price |-> 100],
     [id |-> 2, bill_key |-> <<"n">>, billing_tag |-> <<"b">>,
      match_type |-> "rule_name", match_value |-> <<"r">>, unit_price |-> 25],
     [id |-> 3, bill_key |-> <<"l">>, billing_tag |-> <<"b">>,
      match_type |-> "log_line_contains", match_value |-> <<"z">>, unit_price |-> 7] >>

\* BillingConfigCache.get on a successful load: the index with its tag set
LoadIndex ==
  [buildIndexedBillingConfig(BillingConfigs) EXCEPT
     !.billingTagSet = loadBillingTagSet(TagProjects, TagsTable)]

\* agg[key].count++ ; agg[key].amount += cfg.UnitPrice, for each matched rule
RECURSIVE AddMatches(_, _, _, _)
AddMatches(agg, date, tag, matched) ==
  IF matched = <<>> THEN agg
  ELSE LET cfg == Head(matched)
           key == AggKey(date, cfg.bill_key, tag)
           old == IF key \in DOMAIN agg THEN agg[key] ELSE [count |-> 0, amount |-> 0]
           upd == [count |-> old.count + 1, amount |-> old.amount + cfg.unit_price]
       IN AddMatches([x \in (DOMAIN agg) \cup {key} |-> IF x = key THEN upd ELSE agg[x]],
                     date, tag, Tail(matched))

\* the models.LogEntry built for a non-billable event (ID set on insert)
LogEntryOf(req) ==
  [timestamp |-> req.timestamp, rule_name |-> req.rule_name,
   log_line |-> req.log_line, tag |-> req.tag, ev |-> req.id]

NoWork == [agg |-> <<>>, logEntries |-> <<>>, ring |-> NewQueue(RingCap),
           billedEvs |-> {}, ringedEvs |-> {}]

\* one pass of the loop of ProcessLogBatch over logReq
ClassifyOne(acc, req, idx, t) ==
  LET tag == TrimSpace(req.tag)
  IN IF ~isBillingTag(req.tag, idx)
     THEN [acc EXCEPT !.logEntries = Append(@, LogEntryOf(req))]
     ELSE LET matched == matchBillingConfigs(req, idx)
          IN IF Len(matched) > 0
             THEN [acc EXCEPT
                     !.agg = AddMatches(@, DateOf(req.timestamp), tag, matched),
                     !.billedEvs = @ \cup {req.id}]
             ELSE LET q == QueueAdd(acc.ring, tag, req.rule_name, req.log_line, t)
                  IN [acc EXCEPT
                        !.ring = q,
                        !.ringedEvs = IF Key(tag, req.rule_name) \in DOMAIN q.items
                                      THEN @ \cup {req.id} ELSE @]

\* the loop over logs[lo..hi], in order; the range is halved to keep the
\* evaluation shallow, and the first half is worked out before the second
RECURSIVE ClassifyFrom(_, _, _, _, _, _)
ClassifyFrom(acc, logs, lo, hi, idx, t) ==
  IF lo > hi THEN acc
  ELSE IF lo = hi THEN ClassifyOne(acc, logs[lo], idx, t)
  ELSE LET mid == (lo + hi) \div 2
           left == ClassifyFrom(acc, logs, lo, mid, idx, t)
       IN IF Len(left.logEntries) >= 0
          THEN ClassifyFrom(left, logs, mid + 1, hi, idx, t)
          ELSE left

\* if len(logs) > 100 { logs = logs[:100] }
Truncate(logs) ==
  IF Len(logs) > MaxBatchPerCall THEN SubSeq(logs, 1, MaxBatchPerCall) ELSE logs

\* ProcessLogBatch up to the transaction: the cap, then the loop
Classify(logs, idx, q, t) ==
  ClassifyFrom([NoWork EXCEPT !.ring = q], Truncate(logs), 1, Len(Truncate(logs)), idx, t)

----------------------------------------------------------------------------
(* storage: the statements of the transaction of ProcessLogBatch *)

\* the BillingEntry rows built from agg by SplitN(key, "|", 3)
AggEntries(agg) ==
  LET parts(key) == SplitN(key, "|", 3)
  IN { [date |-> parts(key)[1], bill_key |-> parts(key)[2],
        tag |-> IF Len(parts(key)) = 3 THEN parts(key)[3] ELSE <<>>,
        count |-> agg[key].count, amount |-> agg[key].amount]
       : key \in {x \in DOMAIN agg : Len(parts(x)) >= 2} }

SameKey(r, e) == r.date = e.date /\ r.bill_key = e.bill_key /\ r.tag = e.tag

MaxId(rows) == IF rows = {} THEN 0
               ELSE (CHOOSE r \in rows : \A o \in rows : r.id >= o.id).id

UpsertOverwrite(rows, e) ==
  IF \E r \in rows : SameKey(r, e)
  THEN {IF SameKey(r, e) THEN [r EXCEPT !.count = e.count, !.amount = e.amount]
        ELSE r : r \in rows}
  ELSE rows \cup {[id |-> MaxId(rows) + 1, date |-> e.date, bill_key |-> e.bill_key,
                   tag |-> e.tag, count |-> e.count, amount |-> e.amount]}

\* INSERT ... ON CONFLICT (date, bill_key, tag) DO UPDATE
\*   SET count = count + VALUES(count), amount = amount + VALUES(amount)
Upsert(rows, e) ==
  IF \E r \in rows : SameKey(r, e)
  THEN {IF SameKey(r, e)
        THEN [r EXCEPT !.count = r.count + e.count, !.amount = r.amount + e.amount]
        ELSE r : r \in rows}
  ELSE rows \cup {[id |-> MaxId(rows) + 1, date |-> e.date, bill_key |-> e.bill_key,
                   tag |-> e.tag, count |-> e.count, amount |-> e.amount]}

RECURSIVE UpsertAll(_, _)
UpsertAll(rows, entries) ==
  IF entries = {} THEN rows
  ELSE LET e == CHOOSE x \in entries : TRUE
       IN UpsertAll(Upsert(rows, e), entries \ {e})

\* tx.CreateInBatches(&logEntries, 50): the rows get the next ids
InsertLogs(rows, logEntries, firstId) ==
  rows \cup { [id |-> firstId + i - 1, timestamp |-> logEntries[i].timestamp,
               rule_name |-> logEntries[i].rule_name,
               log_line |-> logEntries[i].log_line, tag |-> logEntries[i].tag,
               ev |-> logEntries[i].ev] : i \in 1..Len(logEntries) }

RECURSIVE SumOver(_, _)
SumOver(f, S) ==
  IF S = {} THEN 0
  ELSE LET x == CHOOSE y \in S : TRUE IN f[x] + SumOver(f, S \ {x})

\* deltas[t]++ for every tag of every entry: one for each place a tag stands
TagDeltas(entrySet) ==
  LET tags(e) == parseLogTags(e.tag)
      all == UNION {SeqToSet(tags(e)) : e \in entrySet}
  IN [t \in all |->
        Cardinality({p \in UNION {{<<e, i>> : i \in 1..Len(tags(e))} : e \in entrySet} :
                       tags(p[1])[p[2]] = t})]

\* IncrByTagDeltas: for each tag, INSERT ... ON CONFLICT (tag) DO UPDATE
\*   SET count = count + delta
IncrByTagDeltas(counts, deltas) ==
  LET live == {t \in DOMAIN deltas : TrimSpace(t) # <<>> /\ deltas[t] > 0}
      keys == {TrimSpace(t) : t \in live}
  IN [k \in (DOMAIN counts) \cup keys |->
        (IF k \in DOMAIN counts THEN counts[k] ELSE 0)
        + SumOver([t \in live |-> IF TrimSpace(t) = k THEN deltas[t] ELSE 0], live)]

DecrNoClamp(counts, deltas) ==
  [k \in DOMAIN counts |->
     counts[k] + SumOver([t \in DOMAIN deltas |->
                            IF TrimSpace(t) = k /\ deltas[t] < 0 THEN deltas[t] ELSE 0],
                         DOMAIN deltas)]

\* DecrByTagDeltas: for each tag, UPDATE ... SET count =
\*   CASE WHEN count + delta < 0 THEN 0 ELSE count + delta END WHERE tag = ?
DecrByTagDeltas(counts, deltas) ==
  [k \in DOMAIN counts |->
     LET d == SumOver([t \in DOMAIN deltas |->
                         IF TrimSpace(t) = k /\ deltas[t] < 0 THEN deltas[t] ELSE 0],
                      DOMAIN deltas)
     IN IF counts[k] + d < 0 THEN 0 ELSE counts[k] + d]

----------------------------------------------------------------------------
(* The clock *)

Tick ==
  /\ now < MaxTime
  /\ now' = now + 1

----------------------------------------------------------------------------
(* The limiter alone: Allow calls on one bucket, and time passing *)

Rates == 1..MaxRate
CapParams == 0..MaxCap

NoReq == [flip |-> FALSE, path |-> <<>>, bucket |-> "default", ok |-> TRUE]
NoAdd == [valid |-> FALSE, tag |-> <<>>, rule_name |-> <<>>, log_line |-> <<>>,
          at |-> 0, before |-> NewQueue(RingCap)]

Transports == {"tcp", "udp"}
Workers == {"tcp", "udp", "http"}

NoTxn == [pending |-> FALSE]
NoCall == [fail |-> "none", err |-> FALSE, wrote |-> FALSE, overtaken |-> FALSE]
EmptyDb == [billing_entries |-> {}, log_entries |-> {}, tag_log_counts |-> <<>>]
RetIdle == [pc |-> "idle", cutoff |-> 0, ids |-> {},
            deltas |-> <<>>, before |-> <<>>]

\* the tables after database.Init on an empty store, nothing in flight
InitPipeRest ==
  /\ ch = [tr \in Transports |-> <<>>]
  /\ batch = [tr \in Transports |-> <<>>]
  /\ txn = [w \in Workers |-> NoTxn]
  /\ db = EmptyDb
  /\ ret = RetIdle
  /\ nEvents = 0
  /\ outcome = <<>>
  /\ flushed = {}
  /\ billed = <<>>
  /\ lastCall = NoCall

NoSnap == [limit |-> 0, at |-> 0, result |-> <<>>]

Conns == {1, 2}

NoConn == [pc |-> "closed", rest |-> <<>>]
NoRx == [c |-> 0, what |-> "none"]

\* Start of the servers in on: channels made, stopChan open, loops running;
\* a server that is not enabled is never started
ServersUp(on) ==
  /\ stop = [tr \in Transports |-> tr \notin on]
  /\ exited = [tr \in Transports |-> tr \notin on]
  /\ udpRecv = IF "udp" \in on THEN "run" ELSE "exited"
  /\ wg = [up |-> on, accept |-> IF "tcp" \in on THEN "run" ELSE "exited",
           stopped |-> {}, queued |-> [tr \in Transports |-> {}]]

\* the zero time.Time of a cache that holds nothing
ZeroTime == -1

NilIndex == [nil |-> TRUE]

\* NewBillingConfigCache(ttl): nothing loaded, mu free
NewBillingConfigCache == [indexed |-> NilIndex, loadedAt |-> ZeroTime, mu |-> "free"]

\* tagcache.New(db): an empty set, mu free
NewTagCache == [set |-> {}, mu |-> "free"]

Getters == {"g1", "g2"}
Ensurers == {"e1", "e2"}
Procs == Getters \cup Ensurers \cup {"adm"}

IdleGetter ==
  [pc |-> "idle", cfgs |-> <<>>, idx |-> NilIndex, err |-> FALSE, readFailed |-> "none",
   cfgClean |-> FALSE, tagClean |-> FALSE]
IdleEnsurer == [pc |-> "idle", name |-> <<>>, err |-> FALSE]
IdleAdmin ==
  [pc |-> "idle", name |-> <<>>, project_id |-> 0, names |-> {}, edits |-> 0,
   saved |-> FALSE]

IdleProcs ==
  [p \in Procs |-> IF p \in Getters THEN IdleGetter
                   ELSE IF p \in Ensurers THEN IdleEnsurer ELSE IdleAdmin]

\* the registry as the start-up leaves it, with every process idle
InitCache ==
  /\ tagDb = [tags |-> TagsTable, projects |-> TagProjects]
  /\ reg = [NewTagCache EXCEPT !.set = {t.name : t \in TagsTable}]
  /\ proc = IdleProcs

\* StartRetentionJob(ctx, cfg) as the go statement leaves it
NewJob(days) ==
  [days |-> days, pc |-> "start", passes |-> 0, tick |-> FALSE, ctxDone |-> FALSE,
   cutoff |-> 0, failed |-> FALSE, left |-> {}]

\* no retention configured and no metrics stored
InitJobOff ==
  /\ job = NewJob(0)
  /\ metricsTbl = {}

InitAux ==
  /\ bcc = NewBillingConfigCache
  /\ touched = <<>>
  /\ snap = NoSnap
  /\ conn = [c \in Conns |-> NoConn]
  /\ lastRx = NoRx
  /\ handed = {}
  /\ deq = {}
  /\ validTcp = {}

InitQuietCore ==
  /\ InitAux
  /\ now = 0
  /\ calls = <<>>
  /\ lastReq = NoReq
  /\ ring = NewQueue(RingCap)
  /\ ringPrev = NoAdd
  /\ born = <<>>
  /\ nAdds = 0

InitQuietRest == InitQuietCore /\ InitCache /\ InitJobOff

InitQuiet ==
  /\ InitQuietRest
  /\ cfgTable = BillingConfigs
  /\ cfgSecret = <<>>
  /\ ServersUp(Transports)

InitRest ==
  /\ InitQuiet
  /\ flushSize = [tr \in Transports |-> 1]
  /\ InitPipeRest

InitLimiter ==
  /\ \E r \in Rates, c \in CapParams :
       limiter = [b \in Buckets |-> NewRateLimiter(r, c, 0)]
  /\ InitRest

\* one caller's Allow on the default bucket; rl.mu makes concurrent calls
\* take turns, so each call is one step
AllowCall ==
  LET rl == limiter["default"]
      res == Allow(rl, now)
      entry == [t |-> now, ok |-> res.ok,
                full |-> Refill(rl, now).tokens = rl.capacity]
  IN /\ limiter' = [limiter EXCEPT !["default"] = res.rl]
     /\ calls' = LastN(Append(calls, entry), HistLen)
     /\ UNCHANGED <<now, lastReq, ring, ringHist, pipeVars, auxVars>>

LimiterTick == Tick /\ UNCHANGED <<limVars, ring, ringHist, pipeVars, auxVars>>

NextLimiter == AllowCall \/ LimiterTick

SpecLimiter == InitLimiter /\ [][NextLimiter]_vars

----------------------------------------------------------------------------
(* The dual middleware: requests on both buckets *)

InitDual ==
  /\ \E r \in Rates, c \in CapParams, br \in Rates, bc \in CapParams :
       limiter = [b \in Buckets |->
                    IF b = "batch" THEN NewRateLimiter(br, bc, 0)
                    ELSE NewRateLimiter(r, c, 0)]
  /\ InitRest

\* the handler DualRateLimitMiddleware returns, for one request
Request(path) ==
  LET b == LimiterFor(path)
      res == Allow(limiter[b], now)
  IN /\ limiter' = [limiter EXCEPT ![b] = res.rl]
     /\ lastReq' = [flip |-> ~lastReq.flip, path |-> path, bucket |-> b,
                    ok |-> res.ok]
     /\ UNCHANGED <<now, calls, ring, ringHist, pipeVars, auxVars>>

DualRequest == \E path \in Paths : Request(path)

DualTick == Tick /\ UNCHANGED <<limVars, ring, ringHist, pipeVars, auxVars>>

NextDual == DualRequest \/ DualTick

SpecDual == InitDual /\ [][NextDual]_vars

----------------------------------------------------------------------------
(* The unmatched ring alone: Add calls, and time passing *)

LongLine == [i \in 1..(SampleMax + 1) |-> "x"]

RingTags == {<<>>, <<"b">>, <<"c">>}
RingRules == {<<>>, <<"r">>}
RingLines == {<<"h">>, LongLine}
\* the instants of the Add calls
RingTimes == {0, 1}

InitRing ==
  /\ limiter = [b \in Buckets |-> NewRateLimiter(1, 0, 0)]
  /\ InitRest

RingAdd(tag, ruleName, logLine) ==
  LET k == Key(tag, ruleName)
      noop == tag = <<>> /\ ruleName = <<>>
  IN /\ nAdds < MaxAdds
     /\ ring' = QueueAdd(ring, tag, ruleName, logLine, now)
     /\ ringPrev' = [valid |-> TRUE, tag |-> tag, rule_name |-> ruleName,
                     log_line |-> logLine, at |-> now, before |-> ring]
     /\ nAdds' = IF noop THEN nAdds ELSE nAdds + 1
     /\ born' = IF noop \/ k \in DOMAIN ring.items THEN born
                ELSE [x \in (DOMAIN born) \cup {k} |->
                        IF x = k THEN nAdds + 1 ELSE born[x]]
     /\ UNCHANGED <<now, limVars, pipeVars, auxVars>>

RingAddAny ==
  \E tag \in RingTags, ruleName \in RingRules, logLine \in RingLines :
    RingAdd(tag, ruleName, logLine)

RingTick == now + 1 \in RingTimes /\ Tick /\ UNCHANGED <<limVars, ring, ringHist, pipeVars, auxVars>>

NextRing == RingAddAny \/ RingTick

SpecRing == InitRing /\ [][NextRing]_vars

----------------------------------------------------------------------------
(* The ring and its reader *)

SnapLimits == 0..(RingCap + 1)

InitSnap ==
  /\ limiter = [b \in Buckets |-> NewRateLimiter(1, 0, 0)]
  /\ InitRest

\* Add, with the number of the call noted for the key it touched
SnapAdd(tag, ruleName, logLine) ==
  LET k == Key(tag, ruleName)
      q == QueueAdd(ring, tag, ruleName, logLine, now)
  IN /\ nAdds < MaxAdds
     /\ ~(tag = <<>> /\ ruleName = <<>>)
     /\ ring' = q
     /\ nAdds' = nAdds + 1
     /\ touched' = [x \in DOMAIN q.items |-> IF x = k THEN nAdds + 1 ELSE touched[x]]
     /\ UNCHANGED <<now, limVars, ringPrev, born, pipeVars, snap, cfgTable, wireVars, cacheVars, retainVars, wg>>

SnapAddAny ==
  \E tag \in RingTags, ruleName \in RingRules : SnapAdd(tag, ruleName, <<"h">>)

\* a reader calls Snapshot(limit)
SnapRead ==
  \E limit \in SnapLimits :
    /\ snap' = [limit |-> limit, at |-> nAdds, result |-> Snapshot(ring, limit)]
    /\ UNCHANGED <<now, limVars, ring, ringHist, pipeVars, touched, cfgTable, wireVars, cacheVars, retainVars, wg>>

NextSnap == SnapAddAny \/ SnapRead

SpecSnap == InitSnap /\ [][NextSnap]_vars

\* the keys of S, the one touched last first
RECURSIVE ByTouch(_)
ByTouch(S) ==
  IF S = {} THEN <<>>
  ELSE LET k == CHOOSE x \in S : \A y \in S : touched[x] >= touched[y]
       IN <<k>> \o ByTouch(S \ {k})

\* C11: for any sequence of Add calls, repeated Adds of an old key included,
\* Snapshot(N) returns the N entries touched (inserted or repeated) most
\* recently, the most recent first (all entries when N is 0 or exceeds them).
C11_SnapshotMostRecentlyTouched ==
  snap.at = nAdds =>
    LET keys == ByTouch(DOMAIN ring.items)
        n == IF snap.limit > 0 /\ Len(keys) > snap.limit THEN snap.limit ELSE Len(keys)
    IN snap.result = [i \in 1..n |-> ring.items[keys[i]]]

----------------------------------------------------------------------------
(* The pipeline: listeners, batch consumers, ProcessLogBatch, retention *)

EventKinds ==
  { [timestamp |-> 1, rule_name |-> <<"r">>, log_line |-> <<"h">>, tag |-> <<"o">>],
    [timestamp |-> 1, rule_name |-> <<"r">>, log_line |-> <<"h">>, tag |-> <<"b">>],
    [timestamp |-> 1, rule_name |-> <<>>, log_line |-> <<"h">>, tag |-> <<"c">>] }

\* the ReceiveLogRequest a listener builds from a wire event
MkEvent(kind, id) ==
  [id |-> id, timestamp |-> kind.timestamp, rule_name |-> kind.rule_name,
   log_line |-> kind.log_line, tag |-> kind.tag]

Ids(logs) == {logs[i].id : i \in 1..Len(logs)}

Accepted(out, ids) == [x \in (DOMAIN out) \cup ids |-> IF x \in DOMAIN out THEN out[x] ELSE {}]

\* ProcessLogBatch from its entry to the call of h.db.Transaction: the index
\* load may fail, and then the call returns the error with nothing done
ProcessBegin(w, logs, out0) ==
  \E getErr \in BOOLEAN :
    IF getErr
    THEN /\ lastCall' = [fail |-> "index", err |-> TRUE, wrote |-> FALSE,
                         overtaken |-> FALSE]
         /\ outcome' = out0
         /\ UNCHANGED <<txn, ring>>
    ELSE LET work == Classify(logs, LoadIndex, ring, now)
         IN /\ txn' = [txn EXCEPT ![w] =
                         [pending |-> TRUE, logs |-> logs, agg |-> work.agg,
                          logEntries |-> work.logEntries,
                          billedEvs |-> work.billedEvs,
                          ringedEvs |-> work.ringedEvs, overtaken |-> FALSE]]
            /\ ring' = work.ring
            /\ outcome' = [x \in DOMAIN out0 |->
                             IF x \in work.ringedEvs THEN out0[x] \cup {"ring"}
                             ELSE out0[x]]
            /\ UNCHANGED lastCall

\* handleConn: a validated line is sent on s.ch; the send blocks while it is full
TcpAccept(kind, limit) ==
  /\ nEvents < limit
  /\ Len(ch["tcp"]) < BufSize
  /\ nEvents' = nEvents + 1
  /\ ch' = [ch EXCEPT !["tcp"] = Append(@, MkEvent(kind, nEvents + 1))]
  /\ outcome' = Accepted(outcome, {nEvents + 1})
  /\ UNCHANGED <<now, limVars, ring, ringHist, auxVars, flushSize, batch, txn, db, ret,
                 flushed, billed, lastCall>>

\* recvLoop: select { case s.ch <- req: default: dropped }
UdpReceive(kind, limit) ==
  /\ nEvents < limit
  /\ nEvents' = nEvents + 1
  /\ IF Len(ch["udp"]) < BufSize
     THEN /\ ch' = [ch EXCEPT !["udp"] = Append(@, MkEvent(kind, nEvents + 1))]
          /\ outcome' = Accepted(outcome, {nEvents + 1})
     ELSE UNCHANGED <<ch, outcome>>
  /\ UNCHANGED <<now, limVars, ring, ringHist, auxVars, flushSize, batch, txn, db, ret,
                 flushed, billed, lastCall>>

FlushKeep(tr, toSend) ==
  /\ batch' = [batch EXCEPT ![tr] = toSend]
  /\ ProcessBegin(tr, toSend, outcome)

\* flush(): toSend := batch; batch = empty; ProcessLogBatch(toSend)
Flush(tr, toSend) ==
  /\ batch' = [batch EXCEPT ![tr] = <<>>]
  /\ ProcessBegin(tr, toSend, outcome)

\* if len(batch) >= s.cfg.FlushSize
FlushNeededLate(b, n) == Len(b) > n

FlushNeeded(b, n) == Len(b) >= n

\* consumeLoop, case req := <-s.ch
Dequeue(tr) ==
  /\ ~txn[tr].pending
  /\ ch[tr] # <<>>
  /\ ch' = [ch EXCEPT ![tr] = Tail(@)]
  /\ LET b == Append(batch[tr], Head(ch[tr]))
     IN IF FlushNeeded(b, flushSize[tr])
        THEN Flush(tr, b)
        ELSE /\ batch' = [batch EXCEPT ![tr] = b]
             /\ UNCHANGED <<txn, ring, outcome, lastCall>>
  /\ UNCHANGED <<now, limVars, ringHist, auxVars, flushSize, db, ret, nEvents, flushed, billed>>

\* consumeLoop, case <-ticker.C
TimerFlush(tr) ==
  /\ ~txn[tr].pending
  /\ batch[tr] # <<>>
  /\ Flush(tr, batch[tr])
  /\ UNCHANGED <<now, limVars, ringHist, auxVars, flushSize, ch, db, ret, nEvents, flushed, billed>>

\* ReceiveLog / BatchReceiveLog: the request's logs go to ProcessLogBatch
HttpSubmit(kind, limit) ==
  /\ ~txn["http"].pending
  /\ nEvents < limit
  /\ nEvents' = nEvents + 1
  /\ ProcessBegin("http", <<MkEvent(kind, nEvents + 1)>>,
                  Accepted(outcome, {nEvents + 1}))
  /\ UNCHANGED <<now, limVars, ringHist, auxVars, flushSize, ch, batch, db, ret, flushed, billed>>

\* the statements of the transaction body in order; fail names the one that
\* returns an error, and the result is what the transaction had written by then
TxRun(d, work, fail) ==
  LET d1 == [d EXCEPT !.billing_entries = UpsertAll(@, AggEntries(work.agg))]
      first == MaxId(d.log_entries) + 1
      d2 == [d1 EXCEPT !.log_entries = InsertLogs(@, work.logEntries, first)]
      new == d2.log_entries \ d1.log_entries
      d3 == [d2 EXCEPT !.tag_log_counts = IncrByTagDeltas(@, TagDeltas(new))]
  IN CASE fail = "billing" -> [db |-> d, err |-> TRUE]
       [] fail = "log" -> [db |-> d1, err |-> TRUE]
       [] fail = "count" -> [db |-> d2, err |-> TRUE]
       [] OTHER -> [db |-> IF Len(work.logEntries) > 0 THEN d3 ELSE d1, err |-> FALSE]

TransactionNoRollback(d, work, fail) == TxRun(d, work, fail)

\* h.db.Transaction(func(tx) error {...}): an error of the body rolls back
Transaction(d, work, fail) ==
  LET r == TxRun(d, work, fail)
  IN IF r.err THEN [db |-> d, err |-> TRUE] ELSE r

\* the statements a call executes, hence the ones that can fail
Fails(work) ==
  {"none"} \cup (IF DOMAIN work.agg # {} THEN {"billing"} ELSE {})
           \cup (IF Len(work.logEntries) > 0 THEN {"log", "count"} ELSE {})

BillingKey(e, cfg) ==
  [date |-> DateOf(e.timestamp), bill_key |-> cfg.bill_key, tag |-> TrimSpace(e.tag)]

\* the increments the billed events of a flush stand for, event by event
RECURSIVE AddBilled(_, _, _)
AddBilled(tot, e, matched) ==
  IF matched = <<>> THEN tot
  ELSE LET k == BillingKey(e, Head(matched))
           old == IF k \in DOMAIN tot THEN tot[k] ELSE [count |-> 0, amount |-> 0]
           upd == [count |-> old.count + 1,
                   amount |-> old.amount + Head(matched).unit_price]
       IN AddBilled([x \in (DOMAIN tot) \cup {k} |-> IF x = k THEN upd ELSE tot[x]],
                    e, Tail(matched))

RECURSIVE BilledBy(_, _, _, _, _)
BilledBy(tot, logs, lo, hi, evs) ==
  IF lo > hi THEN tot
  ELSE IF lo = hi
       THEN IF logs[lo].id \in evs
            THEN AddBilled(tot, logs[lo], matchBillingConfigs(logs[lo], LoadIndex))
            ELSE tot
  ELSE LET mid == (lo + hi) \div 2
           left == BilledBy(tot, logs, lo, mid, evs)
       IN IF DOMAIN left = {} \/ DOMAIN left # {}
          THEN BilledBy(left, logs, mid + 1, hi, evs)
          ELSE left

\* the transaction of ProcessLogBatch and the return of the call
Commit(w) ==
  /\ txn[w].pending
  /\ \E fail \in Fails(txn[w]) :
       LET r == Transaction(db, txn[w], fail)
           logged == {x.ev : x \in r.db.log_entries \ db.log_entries}
           bills == IF r.db.billing_entries # db.billing_entries
                    THEN txn[w].billedEvs ELSE {}
           sent == IF r.err THEN {} ELSE txn[w].billedEvs
       IN /\ db' = r.db
          /\ lastCall' = [fail |-> fail, err |-> r.err,
                          wrote |-> TxRun(db, txn[w], fail).db # db,
                          overtaken |-> txn[w].overtaken]
          /\ outcome' = [x \in DOMAIN outcome |->
                           outcome[x] \cup (IF x \in logged THEN {"log"} ELSE {})
                                     \cup (IF x \in bills THEN {"bill"} ELSE {})]
          /\ flushed' = IF r.err THEN flushed ELSE flushed \cup Ids(txn[w].logs)
          /\ billed' = IF r.err THEN billed
                       ELSE BilledBy(billed, txn[w].logs, 1, Len(txn[w].logs), sent)
          /\ txn' = [o \in Workers |->
                       IF o = w THEN NoTxn
                       ELSE IF /\ txn[o].pending
                               /\ ~r.err
                               /\ (DOMAIN txn[o].agg) \cap (DOMAIN txn[w].agg) # {}
                            THEN [txn[o] EXCEPT !.overtaken = TRUE]
                            ELSE txn[o]]
  /\ UNCHANGED <<now, limVars, ring, ringHist, auxVars, flushSize, ch, batch, ret, nEvents>>

\* cutoff := time.Now().AddDate(0, 0, -retentionDays).Unix()
Cutoffs == {1, 2}

Expired(rows, cutoff) == {r \in rows : r.timestamp < cutoff}

\* Where("timestamp < ?", cutoff).Limit(limit): any page of at most limit rows
PagesOf(rows, cutoff, limit) ==
  LET e == Expired(rows, cutoff)
  IN IF Cardinality(e) <= limit THEN {e}
     ELSE {pg \in SUBSET e : Cardinality(pg) = limit}

\* Find(&batch) with Limit(retentionBatchSize): any page of at most that size
Pages(rows, cutoff) == PagesOf(rows, cutoff, retentionBatchSize)

\* deltas[t]-- for every tag of every row of the page
PageDeltas(page) ==
  LET d == TagDeltas(page) IN [t \in DOMAIN d |-> 0 - d[t]]

\* StartRetentionJob: the run at start-up and each tick of the ticker
RetStart ==
  /\ ret.pc = "idle"
  /\ \E cutoff \in Cutoffs :
       ret' = [RetIdle EXCEPT !.pc = "find", !.cutoff = cutoff]
  /\ UNCHANGED <<now, limVars, ring, ringHist, auxVars, flushSize, ch, batch, txn, db,
                 nEvents, outcome, flushed, billed, lastCall>>

\* runRetention, one turn of the log loop up to the delete: the page query,
\* then DecrByTagDeltas, which stops at the first tag whose update fails;
\* its error is logged and the loop goes on to the delete
RetPage ==
  /\ ret.pc = "find"
  /\ \E findErr \in BOOLEAN :
       IF findErr
       THEN /\ ret' = RetIdle
            /\ UNCHANGED db
       ELSE \E page \in Pages(db.log_entries, ret.cutoff) :
              IF page = {}
              THEN /\ ret' = RetIdle
                   /\ UNCHANGED db
              ELSE LET deltas == PageDeltas(page)
                   IN \E done \in SUBSET DOMAIN deltas :
                        LET applied == [t \in done |-> deltas[t]]
                        IN /\ db' = [db EXCEPT !.tag_log_counts =
                                       DecrByTagDeltas(@, applied)]
                           /\ ret' = [ret EXCEPT !.pc = "delete",
                                        !.ids = {r.id : r \in page},
                                        !.deltas = applied,
                                        !.before = db.tag_log_counts]
  /\ UNCHANGED <<now, limVars, ring, ringHist, auxVars, flushSize, ch, batch, txn,
                 nEvents, outcome, flushed, billed, lastCall>>

\* runRetention: Unscoped().Delete(&models.LogEntry{}, ids); an error ends the pass
RetDelete ==
  /\ ret.pc = "delete"
  /\ \E delErr \in BOOLEAN :
       IF delErr
       THEN /\ ret' = RetIdle
            /\ UNCHANGED db
       ELSE /\ db' = [db EXCEPT !.log_entries = {r \in @ : r.id \notin ret.ids}]
            /\ ret' = [ret EXCEPT !.pc = "find", !.ids = {}, !.deltas = <<>>,
                               !.before = <<>>]
  /\ UNCHANGED <<now, limVars, ring, ringHist, auxVars, flushSize, ch, batch, txn,
                 nEvents, outcome, flushed, billed, lastCall>>

FlushSizes == 1..MaxFlush

PipeLimiter == [b \in Buckets |-> NewRateLimiter(1, 1, 0)]

Init ==
  /\ InitQuiet
  /\ limiter = PipeLimiter
  /\ \E n \in FlushSizes : flushSize = [tr \in Transports |-> n]
  /\ InitPipeRest

TcpListen == \E kind \in EventKinds : TcpAccept(kind, MaxEvents)
UdpListen == \E kind \in EventKinds : UdpReceive(kind, MaxEvents)
HttpReceive == \E kind \in EventKinds : HttpSubmit(kind, MaxEvents)
Consume == \E tr \in Transports : Dequeue(tr)
Ticker == \E tr \in Transports : TimerFlush(tr)
CommitAny == \E w \in Workers : Commit(w)

Next ==
  \/ TcpListen
  \/ UdpListen
  \/ HttpReceive
  \/ Consume
  \/ Ticker
  \/ CommitAny
  \/ RetStart
  \/ RetPage
  \/ RetDelete

Spec == Init /\ [][Next]_vars

----------------------------------------------------------------------------
(* One consumer whose batch is about to reach the cap of ProcessLogBatch *)

BatchKinds == {k \in EventKinds : k.timestamp = 1}
FirstKind == CHOOSE k \in EventKinds : k.timestamp = 1 /\ k.tag = <<"o">>
Preloaded == MaxBatchPerCall - 1
BatchLimit == MaxBatchPerCall + 1

\* the TCP consumer has taken Preloaded accepted events off the channel and
\* its flush size is the cap or more
InitBatch ==
  /\ InitQuiet
  /\ limiter = PipeLimiter
  /\ \E n \in {MaxBatchPerCall, MaxBatchPerCall + 1} :
       flushSize = [tr \in Transports |-> n]
  /\ ch = [tr \in Transports |-> <<>>]
  /\ batch = [tr \in Transports |->
                IF tr = "tcp" THEN [i \in 1..Preloaded |-> MkEvent(FirstKind, i)]
                ELSE <<>>]
  /\ txn = [w \in Workers |-> NoTxn]
  /\ db = EmptyDb
  /\ ret = RetIdle
  /\ nEvents = Preloaded
  /\ outcome = [i \in 1..Preloaded |-> {}]
  /\ flushed = {}
  /\ billed = <<>>
  /\ lastCall = NoCall

BatchListen == \E kind \in BatchKinds : TcpAccept(kind, BatchLimit)
BatchConsume == Dequeue("tcp")
BatchTicker == TimerFlush("tcp")
BatchCommit == Commit("tcp")

NextBatch == BatchListen \/ BatchConsume \/ BatchTicker \/ BatchCommit

SpecBatch == InitBatch /\ [][NextBatch]_vars

----------------------------------------------------------------------------
(* ProcessLogBatch on billable events, under a table of rules drawn at start *)

MaxMatch == 2

\* a table whose rule 2 has a bill_key with the separator of the aggregate key
\* in it (bill_key is only required to be non-empty), rules 1 and 3 sharing one
MatchConfigs ==
  << [id |-> 1, bill_key |-> <<"k">>, billing_tag |-> <<"b">>,
      match_type |-> "tag", match_value |-> <<"b">>, unit_price |-> 100],
     [id |-> 2, bill_key |-> <<"k", "|", "n">>, billing_tag |-> <<"b">>,
      match_type |-> "rule_name", match_value |-> <<"r">>, unit_price |-> 25],
     [id |-> 3, bill_key |-> <<"k">>, billing_tag |-> <<"b">>,
      match_type |-> "log_line_contains", match_value |-> <<"z">>, unit_price |-> 7] >>

\* BillingConfigCache.get on the table in force
IndexOf(cfgs) ==
  [buildIndexedBillingConfig(cfgs) EXCEPT
     !.billingTagSet = loadBillingTagSet(TagProjects, TagsTable)]

MatchKinds ==
  { [timestamp |-> ts, rule_name |-> rn, log_line |-> ll, tag |-> tg] :
      ts \in {1, DayLen + 1}, rn \in {<<"r">>, <<>>}, ll \in {<<"h">>, <<"z">>},
      tg \in {<<"b">>, <<"c", ",", " ", "b">>} }

InitMatch ==
  /\ InitQuietRest
  /\ cfgTable \in {BillingConfigs, MatchConfigs}
  /\ cfgSecret = <<>>
  /\ ServersUp(Transports)
  /\ limiter = PipeLimiter
  /\ flushSize = [tr \in Transports |-> 1]
  /\ InitPipeRest

\* ReceiveLog: one event goes through the loop of ProcessLogBatch
ReceiveLog(kinds) ==
  \E kind \in kinds :
    LET e == MkEvent(kind, nEvents + 1)
        work == Classify(<<e>>, IndexOf(cfgTable), ring, now)
    IN /\ ~txn["http"].pending
       /\ nEvents < MaxMatch
       /\ nEvents' = nEvents + 1
       /\ txn' = [txn EXCEPT !["http"] =
                    [pending |-> TRUE, logs |-> <<e>>, agg |-> work.agg,
                     logEntries |-> work.logEntries, billedEvs |-> work.billedEvs,
                     ringedEvs |-> work.ringedEvs, overtaken |-> FALSE]]
       /\ ring' = work.ring
       /\ UNCHANGED <<now, limVars, ringHist, auxVars, flushSize, ch, batch, db, ret,
                      outcome, flushed, billed, lastCall>>

MatchBegin == ReceiveLog(MatchKinds)

\* the transaction of that call
MatchCommit ==
  /\ txn["http"].pending
  /\ \E fail \in Fails(txn["http"]) :
       LET r == Transaction(db, txn["http"], fail)
       IN /\ db' = r.db
          /\ lastCall' = [fail |-> fail, err |-> r.err,
                          wrote |-> TxRun(db, txn["http"], fail).db # db,
                          overtaken |-> FALSE]
  /\ txn' = [txn EXCEPT !["http"] = NoTxn]
  /\ UNCHANGED <<now, limVars, ring, ringHist, auxVars, flushSize, ch, batch, ret,
                 nEvents, outcome, flushed, billed>>

NextMatch == MatchBegin \/ MatchCommit

SpecMatch == InitMatch /\ [][NextMatch]_vars

----------------------------------------------------------------------------
(* matchBillingConfigs on one tag-type rule and events of several tags *)

\* the tag-type rules: BillingTag is a comma-joined list, MatchValue any string
TierConfigs ==
  { << [id |-> 1, bill_key |-> <<"k">>, billing_tag |-> bt,
        match_type |-> "tag", match_value |-> mv, unit_price |-> 100] >> :
      bt \in {<<"c">>, <<"b">>, <<"x", "b", ",", " ", "c">>},
      mv \in {<<"b">>, <<"c">>, <<"x", "b">>, <<>>} }

\* events of one tag and of two; the tags b and c are of the billing project
TierKinds ==
  { [timestamp |-> 1, rule_name |-> <<"r">>, log_line |-> <<"h">>, tag |-> tg] :
      tg \in {<<"b">>, <<"x", "b", ",", "c">>, <<"c", ",", " ", "b">>} }

InitTier ==
  /\ InitQuietRest
  /\ cfgTable \in TierConfigs
  /\ cfgSecret = <<>>
  /\ ServersUp(Transports)
  /\ limiter = PipeLimiter
  /\ flushSize = [tr \in Transports |-> 1]
  /\ InitPipeRest

TierBegin == ReceiveLog(TierKinds)

NextTier == TierBegin \/ MatchCommit

SpecTier == InitTier /\ [][NextTier]_vars

----------------------------------------------------------------------------
(* The TCP and UDP servers: frames and datagrams, the channels, the consumers *)

MaxWire == 2

\* const maxFrameSize = 4 * 1024 * 1024
maxFrameSize == 4194304

Secrets == {<<>>, <<"s">>}

\* the events a client can put on the wire
WireKind(ts, line, secret, apiKey) ==
  [timestamp |-> ts, rule_name |-> <<"r">>, log_line |-> line, tag |-> <<"o">>,
   secret |-> secret, api_key |-> apiKey]

WireKinds ==
  { WireKind(1, <<"h">>, <<"s">>, <<>>), WireKind(1, <<"h">>, <<>>, <<"s">>),
    WireKind(1, <<"h">>, <<"x">>, <<"s">>),
    WireKind(0, <<"h">>, <<"s">>, <<>>), WireKind(1, <<>>, <<"s">>, <<>>) }

\* the ReceiveLogRequest unmarshalled from the wire, Transport set by the server
MkWire(kind, id, tr) ==
  [id |-> id, timestamp |-> kind.timestamp, rule_name |-> kind.rule_name,
   log_line |-> kind.log_line, tag |-> kind.tag, secret |-> kind.secret,
   api_key |-> kind.api_key, transport |-> tr]

checkSecretAlways(req, secret) == TRUE

\* checkSecret: no secret configured, or secret (else api_key) equals it
checkSecret(req, secret) ==
  IF secret = <<>> THEN TRUE
  ELSE LET given == IF req.secret = <<>> THEN req.api_key ELSE req.secret
       IN given = secret

\* if req.Timestamp == 0 || req.LogLine == "" { continue }; if !checkSecret { continue }
Validated(req, secret) ==
  /\ ~(req.timestamp = 0 \/ req.log_line = <<>>)
  /\ checkSecret(req, secret)

FrameLenBadZeroOnly(n) == n = 0

\* if payloadLen == 0 || payloadLen > maxFrameSize { return }
FrameLenBad(n) == n = 0 \/ n > maxFrameSize

\* what a read of the connection can bring: the end of the stream or a read
\* deadline, a length prefix alone, a payload cut short, bytes that are no
\* JSON, one object, or an object with a logs array
Frame(length, kind, logs) == [length |-> length, kind |-> kind, logs |-> logs]

Frames ==
  {Frame(0, "eof", <<>>), Frame(0, "length", <<>>),
   Frame(maxFrameSize + 1, "length", <<>>), Frame(1, "short", <<>>),
   Frame(1, "garbage", <<>>), Frame(1, "batch", <<>>),
   Frame(maxFrameSize, "single", <<WireKind(1, <<"h">>, <<"s">>, <<>>)>>)}
    \cup {Frame(1, "single", <<k>>) : k \in WireKinds}
    \cup {Frame(1, "batch", <<WireKind(1, <<"h">>, <<"s">>, <<>>), k>>) :
            k \in {WireKind(1, <<"h">>, <<"s">>, <<>>), WireKind(1, <<"h">>, <<"x">>, <<"s">>)}}

\* the two json.Unmarshal attempts: one object with log_line and timestamp,
\* else the logs array of an object
ParseFrame(f) ==
  IF f.kind = "single" /\ f.logs[1].log_line # <<>> /\ f.logs[1].timestamp # 0
  THEN f.logs
  ELSE IF f.kind = "batch" /\ Len(f.logs) > 0 THEN f.logs
  ELSE <<>>

Datagrams ==
  {Frame(0, "timeout", <<>>), Frame(0, "empty", <<>>), Frame(1, "garbage", <<>>)}
    \cup {Frame(1, "single", <<k>>) : k \in WireKinds}

TcpSelectDrop(q, e) ==
  IF Len(q) < BufSize THEN [go |-> TRUE, q |-> Append(q, e)]
  ELSE [go |-> TRUE, q |-> q]

\* select { case s.ch <- req: case <-s.stopChan: return }: waits while full
TcpSelect(q, e) ==
  IF Len(q) < BufSize THEN [go |-> TRUE, q |-> Append(q, e)]
  ELSE [go |-> FALSE, q |-> q]

UdpSelectBlock(q, e) ==
  IF Len(q) < BufSize THEN [go |-> TRUE, q |-> Append(q, e)]
  ELSE [go |-> FALSE, q |-> q]

\* select { case s.ch <- req: case <-s.stopChan: return; default: }
UdpSelect(q, e) ==
  IF Len(q) < BufSize THEN [go |-> TRUE, q |-> Append(q, e)]
  ELSE [go |-> TRUE, q |-> q]

wireQuiet == <<now, limVars, ringHist, touched, snap, cfgTable, cfgSecret, flushSize,
               db, ret, flushed, billed, cacheVars, retainVars, wg>>

InitWire ==
  /\ InitQuietRest
  /\ cfgTable = BillingConfigs
  /\ cfgSecret \in Secrets
  /\ \E tr \in Transports : ServersUp({tr})
  /\ limiter = PipeLimiter
  /\ flushSize = [tr \in Transports |-> MaxFlush]
  /\ InitPipeRest

\* acceptLoop: Accept, go handleConn; the handler passes its first stop check
AcceptLoop(c) ==
  /\ ~stop["tcp"]
  /\ conn[c].pc = "closed"
  /\ \A o \in Conns : conn[o].pc = "closed" => c <= o
  /\ conn' = [conn EXCEPT ![c] = [pc |-> "read", rest |-> <<>>]]
  /\ UNCHANGED <<wireQuiet, ring, ch, batch, txn, nEvents, outcome, lastCall, stop,
                 exited, udpRecv, lastRx, handed, deq, validTcp>>

\* the handler after a frame: back to the stop check at the top of its loop
LoopTop(tr) == IF stop[tr] THEN NoConn ELSE [pc |-> "read", rest |-> <<>>]

\* handleConn from the read of the length to the first send on s.ch
HandleConnRead(c) ==
  \E f \in Frames :
    LET logs == ParseFrame(f)
        Ok(k) == Validated(k, cfgSecret)
        v == SelectSeq(logs, Ok)
        evs == [i \in 1..Len(v) |-> MkWire(v[i], nEvents + i, "tcp")]
    IN /\ conn[c].pc = "read"
       /\ lastRx' = IF f.kind = "length" THEN [c |-> c, what |-> "length"]
                    ELSE IF f.kind = "garbage" THEN [c |-> c, what |-> "malformed"]
                    ELSE NoRx
       /\ IF f.kind = "eof" \/ FrameLenBad(f.length) \/ f.kind = "short"
          THEN /\ conn' = [conn EXCEPT ![c] = NoConn]
               /\ UNCHANGED <<nEvents, outcome, validTcp>>
          ELSE /\ nEvents + Len(v) <= MaxWire
               /\ nEvents' = nEvents + Len(v)
               /\ validTcp' = validTcp \cup Ids(evs)
               /\ outcome' = Accepted(outcome, Ids(evs))
               /\ conn' = [conn EXCEPT ![c] =
                             IF evs = <<>> THEN LoopTop("tcp")
                             ELSE [pc |-> "send", rest |-> evs]]
       /\ UNCHANGED <<wireQuiet, ring, ch, batch, txn, lastCall, stop, exited, udpRecv,
                      handed, deq>>

\* handleConn at the select, the send taken
HandleConnSend(c) ==
  LET r == TcpSelect(ch["tcp"], Head(conn[c].rest))
  IN /\ conn[c].pc = "send"
     /\ r.go
     /\ ch' = [ch EXCEPT !["tcp"] = r.q]
     /\ conn' = [conn EXCEPT ![c] =
                   IF Len(conn[c].rest) = 1 THEN LoopTop("tcp")
                   ELSE [pc |-> "send", rest |-> Tail(conn[c].rest)]]
     /\ UNCHANGED <<wireQuiet, ring, batch, txn, nEvents, outcome, lastCall, stop,
                    exited, udpRecv, lastRx, handed, deq, validTcp>>

\* handleConn at the select, case <-s.stopChan: return
HandleConnStop(c) ==
  /\ stop["tcp"]
  /\ conn[c].pc = "send"
  /\ conn' = [conn EXCEPT ![c] = NoConn]
  /\ UNCHANGED <<wireQuiet, ring, ch, batch, txn, nEvents, outcome, lastCall, stop,
                 exited, udpRecv, lastRx, handed, deq, validTcp>>

\* recvLoop: one pass, from ReadFromUDP (a datagram or the read deadline) to
\* the select and the stop check at the top
RecvLoop ==
  \E d \in Datagrams :
    LET k == d.logs[1]
        ok == d.kind = "single" /\ Validated(k, cfgSecret)
        e == MkWire(k, nEvents + 1, "udp")
        r == UdpSelect(ch["udp"], e)
    IN /\ udpRecv = "run"
       /\ udpRecv' = IF stop["udp"] THEN "exited" ELSE "run"
       /\ IF ok
          THEN /\ nEvents < MaxWire
               /\ nEvents' = nEvents + 1
               /\ r.go
               /\ \E q \in (IF stop["udp"] THEN {r.q, ch["udp"]} ELSE {r.q}) :
                    /\ ch' = [ch EXCEPT !["udp"] = q]
                    /\ outcome' = IF q = ch["udp"] THEN outcome
                                  ELSE Accepted(outcome, {nEvents + 1})
          ELSE UNCHANGED <<nEvents, ch, outcome>>
       /\ UNCHANGED <<wireQuiet, ring, batch, txn, lastCall, stop, exited, conn, lastRx,
                      handed, deq, validTcp>>

\* Stop: close(s.stopChan) and the listener or socket
ServerStop(tr) ==
  /\ ~stop[tr]
  /\ stop' = [stop EXCEPT ![tr] = TRUE]
  /\ UNCHANGED <<wireQuiet, ring, ch, batch, txn, nEvents, outcome, lastCall, exited,
                 conn, udpRecv, lastRx, handed, deq, validTcp>>

\* flush := func() { if len(batch) == 0 { return }; toSend := batch; batch = make(...);
\*                   ProcessLogBatch(toSend) }
WireFlush(tr, toSend) ==
  IF toSend = <<>>
  THEN /\ batch' = [batch EXCEPT ![tr] = toSend]
       /\ UNCHANGED <<txn, ring, outcome, lastCall, handed>>
  ELSE /\ Flush(tr, toSend)
       /\ handed' = handed \cup Ids(toSend)

\* consumeLoop, case req := <-s.ch
ConsumeDequeue(tr) ==
  LET b == Append(batch[tr], Head(ch[tr]))
  IN /\ ~exited[tr]
     /\ ~txn[tr].pending
     /\ ch[tr] # <<>>
     /\ ch' = [ch EXCEPT ![tr] = Tail(@)]
     /\ deq' = deq \cup {<<tr, Head(ch[tr]).id>>}
     /\ IF FlushNeeded(b, flushSize[tr])
        THEN WireFlush(tr, b)
        ELSE /\ batch' = [batch EXCEPT ![tr] = b]
             /\ UNCHANGED <<txn, ring, outcome, lastCall, handed>>
     /\ UNCHANGED <<wireQuiet, nEvents, stop, exited, conn, udpRecv, lastRx,
                    validTcp>>

\* consumeLoop, case <-ticker.C
ConsumeTick(tr) ==
  /\ ~exited[tr]
  /\ ~txn[tr].pending
  /\ WireFlush(tr, batch[tr])
  /\ UNCHANGED <<wireQuiet, ch, nEvents, stop, exited, conn, udpRecv, lastRx, deq,
                 validTcp>>

StopCaseNoFlush(tr) ==
  /\ batch' = [batch EXCEPT ![tr] = <<>>]
  /\ UNCHANGED <<txn, ring, outcome, lastCall, handed>>

\* case <-s.stopChan: flush(); return
StopCase(tr) == WireFlush(tr, batch[tr])

\* consumeLoop, case <-s.stopChan
ConsumeStop(tr) ==
  /\ stop[tr]
  /\ ~exited[tr]
  /\ ~txn[tr].pending
  /\ exited' = [exited EXCEPT ![tr] = TRUE]
  /\ StopCase(tr)
  /\ UNCHANGED <<wireQuiet, ch, nEvents, stop, conn, udpRecv, lastRx, deq,
                 validTcp>>

Accept == \E c \in Conns : AcceptLoop(c)
HandleConn == \E c \in Conns : HandleConnRead(c) \/ HandleConnSend(c) \/ HandleConnStop(c)
Stop == \E tr \in Transports : ServerStop(tr)
ConsumeLoop ==
  \E tr \in Transports :
    ConsumeDequeue(tr) \/ ConsumeTick(tr) \/ ConsumeStop(tr) \/ Commit(tr)

NextWire == Accept \/ HandleConn \/ RecvLoop \/ Stop \/ ConsumeLoop

SpecWire == InitWire /\ [][NextWire]_vars

-----------------------------------------------------------------------------
(* Stop to its return: the WaitGroup of Start counts acceptLoop or recvLoop *)
(* and consumeLoop                                                          *)

\* acceptLoop: Accept fails on the closed listener, stopChan is closed: return
AcceptExit ==
  /\ stop["tcp"]
  /\ wg.accept = "run"
  /\ wg' = [wg EXCEPT !.accept = "exited"]
  /\ UNCHANGED <<now, limVars, ring, ringHist, pipeVars, touched, snap, cfgTable,
                 wireVars, cacheVars, retainVars>>

\* the goroutines s.wg.Add(2) counts have called wg.Done
WaitDone(tr) ==
  /\ exited[tr]
  /\ IF tr = "tcp" THEN wg.accept = "exited" ELSE udpRecv = "exited"

\* Stop: s.wg.Wait() returns, and then Stop
StopReturn(tr) ==
  /\ tr \in wg.up
  /\ stop[tr]
  /\ tr \notin wg.stopped
  /\ WaitDone(tr)
  /\ wg' = [wg EXCEPT !.stopped = @ \cup {tr}]
  /\ UNCHANGED <<now, limVars, ring, ringHist, pipeVars, touched, snap, cfgTable,
                 wireVars, cacheVars, retainVars>>

StopWait == \E tr \in Transports : StopReturn(tr)

\* Stop: close(s.stopChan), with the events that are in the channel and in the
\* consumer's batch at that instant noted
StopSignal(tr) ==
  /\ ~stop[tr]
  /\ stop' = [stop EXCEPT ![tr] = TRUE]
  /\ wg' = [wg EXCEPT !.queued[tr] = Ids(ch[tr]) \cup Ids(batch[tr])]
  /\ UNCHANGED <<now, limVars, ring, ringHist, pipeVars, touched, snap, cfgTable,
                 cfgSecret, exited, conn, udpRecv, lastRx, handed, deq, validTcp,
                 cacheVars, retainVars>>

StopClose == \E tr \in Transports : StopSignal(tr)

NextStop ==
  Accept \/ HandleConn \/ RecvLoop \/ StopClose \/ ConsumeLoop \/ AcceptExit \/ StopWait

SpecStop == InitWire /\ [][NextStop]_vars

-----------------------------------------------------------------------------
(* The two batch consumers alone: both listeners feed their channels, the   *)
(* consumers dequeue, flush on size or tick, and a flush may fail           *)

ConsumeKinds == {k \in EventKinds : k.tag # <<"c">>}

InitConsume ==
  /\ InitQuiet
  /\ limiter = PipeLimiter
  /\ \E n \in FlushSizes : flushSize = [tr \in Transports |-> n]
  /\ InitPipeRest

ConsumeListen ==
  \E kind \in ConsumeKinds : TcpAccept(kind, MaxEvents) \/ UdpReceive(kind, MaxEvents)

ConsumeTake == \E tr \in Transports : ConsumeDequeue(tr)
ConsumeTicker == \E tr \in Transports : ConsumeTick(tr)
ConsumeCommit == \E tr \in Transports : Commit(tr)

NextConsume == ConsumeListen \/ ConsumeTake \/ ConsumeTicker \/ ConsumeCommit

SpecConsume == InitConsume /\ [][NextConsume]_vars

-----------------------------------------------------------------------------
(* The billing config index: BillingConfigCache.get by two classification   *)
(* workers, the billing config handlers and SetTagProject of an             *)
(* administrator, and time passing                                          *)

idxQuiet == <<limVars, ring, ringHist, pipeVars, touched, snap, wireVars, retainVars, wg>>

\* time.Since(c.loadedAt) < c.ttl && c.indexed != nil
FreshAtTtl(c, t) == c.loadedAt # ZeroTime /\ t - c.loadedAt <= TtlTicks /\ c.indexed # NilIndex

Fresh(c, t) == c.loadedAt # ZeroTime /\ t - c.loadedAt < TtlTicks /\ c.indexed # NilIndex

\* Invalidate: c.indexed = nil; c.loadedAt = time.Time{}
Invalidate(c) == [c EXCEPT !.indexed = NilIndex, !.loadedAt = ZeroTime]

GetterAt(g, pc) == g \in Getters /\ proc[g].pc = pc

Returned(g, idx, err, failed) ==
  [proc[g] EXCEPT !.pc = "done", !.idx = idx, !.err = err, !.readFailed = failed,
                  !.cfgs = <<>>]

\* get: the read-locked fast path of a call that starts now
GetStart(g) ==
  /\ GetterAt(g, "idle")
  /\ bcc.mu = "free"
  /\ LET me == [proc[g] EXCEPT !.cfgClean = TRUE,
                               !.tagClean = proc["adm"].pc \in {"idle", "save"}]
     IN proc' = [proc EXCEPT ![g] =
                   IF Fresh(bcc, now)
                   THEN [me EXCEPT !.pc = "done", !.idx = bcc.indexed]
                   ELSE [me EXCEPT !.pc = "lock"]]
  /\ UNCHANGED <<now, idxQuiet, cfgTable, bcc, tagDb, reg>>

\* get: c.mu.Lock() and the second look at the cache
GetLockNoSecondLook(g) ==
  /\ GetterAt(g, "lock")
  /\ bcc.mu = "free"
  /\ bcc' = [bcc EXCEPT !.mu = g]
  /\ proc' = [proc EXCEPT ![g].pc = "find"]
  /\ UNCHANGED <<now, idxQuiet, cfgTable, tagDb, reg>>

GetLock(g) ==
  /\ GetterAt(g, "lock")
  /\ bcc.mu = "free"
  /\ IF Fresh(bcc, now)
     THEN /\ proc' = [proc EXCEPT ![g] = Returned(g, bcc.indexed, FALSE, "none")]
          /\ UNCHANGED bcc
     ELSE /\ bcc' = [bcc EXCEPT !.mu = g]
          /\ proc' = [proc EXCEPT ![g].pc = "find"]
  /\ UNCHANGED <<now, idxQuiet, cfgTable, tagDb, reg>>

\* get: db.Order("id ASC").Find(&configs), under c.mu
GetFind(g) ==
  /\ GetterAt(g, "find")
  /\ \E err \in BOOLEAN :
       IF err
       THEN /\ bcc' = [bcc EXCEPT !.mu = "free"]
            /\ proc' = [proc EXCEPT ![g] = Returned(g, NilIndex, TRUE, "configs")]
       ELSE /\ proc' = [proc EXCEPT ![g].pc = "tags", ![g].cfgs = cfgTable]
            /\ UNCHANGED bcc
  /\ UNCHANGED <<now, idxQuiet, cfgTable, tagDb, reg>>

TagReadFails == {"none", "project", "names"}

\* get: buildIndexedBillingConfig, loadBillingTagSet (whose two reads turn an
\* error into the empty set), then the new index is stored and mu released
GetTags(g) ==
  /\ GetterAt(g, "tags")
  /\ \E fail \in TagReadFails :
       LET set == IF fail = "none" THEN loadBillingTagSet(tagDb.projects, tagDb.tags)
                  ELSE {}
           idx == [buildIndexedBillingConfig(proc[g].cfgs) EXCEPT !.billingTagSet = set]
       IN /\ bcc' = [indexed |-> idx, loadedAt |-> now, mu |-> "free"]
          /\ proc' = [proc EXCEPT ![g] = Returned(g, idx, FALSE, fail)]
  /\ UNCHANGED <<now, idxQuiet, cfgTable, tagDb, reg>>

\* ProcessLogBatch goes on with idx, or returns the error of get
GetReturn(g) ==
  /\ GetterAt(g, "done")
  /\ proc' = [proc EXCEPT ![g] = IdleGetter]
  /\ UNCHANGED <<now, idxQuiet, cfgTable, bcc, tagDb, reg>>

\* the request bodies the administrator sends
NewConfig ==
  [bill_key |-> <<"m">>, billing_tag |-> <<"b">>, match_type |-> "tag",
   match_value |-> <<"c">>, unit_price |-> 3]
UpdatedIds == {1}
UpdatedPrice == 50
DeletedIds == {3}

CfgIds(cfgs) == {cfgs[i].id : i \in 1..Len(cfgs)}
CfgMaxId(cfgs) == IF cfgs = <<>> THEN 0 ELSE cfgs[Len(cfgs)].id

\* h.db.Create(&config)
CreateConfig(cfgs, req) ==
  Append(cfgs, [id |-> CfgMaxId(cfgs) + 1, bill_key |-> req.bill_key,
                billing_tag |-> req.billing_tag, match_type |-> req.match_type,
                match_value |-> req.match_value, unit_price |-> req.unit_price])

\* h.db.First(&config, id); the fields are set; h.db.Save(&config)
UpdateConfig(cfgs, id, price) ==
  [i \in 1..Len(cfgs) |-> IF cfgs[i].id = id THEN [cfgs[i] EXCEPT !.unit_price = price]
                          ELSE cfgs[i]]

\* h.db.Delete(&models.BillingConfig{}, id)
DeleteConfig(cfgs, id) == LET Keep(c) == c.id # id IN SelectSeq(cfgs, Keep)

Edited(t) ==
  /\ proc["adm"].pc = "idle"
  /\ proc["adm"].edits < MaxEdits
  /\ t # cfgTable
  /\ cfgTable' = t
  /\ proc' = [p \in Procs |->
                IF p \in Getters THEN [proc[p] EXCEPT !.cfgClean = FALSE]
                ELSE IF p = "adm" THEN [proc[p] EXCEPT !.edits = @ + 1]
                ELSE proc[p]]
  /\ UNCHANGED <<now, idxQuiet, bcc, tagDb, reg>>

\* BillingHandler.CreateConfig, UpdateConfig, DeleteConfig: the row is
\* written and the response sent
EditConfig ==
  \/ Edited(CreateConfig(cfgTable, NewConfig))
  \/ \E id \in UpdatedIds : Edited(UpdateConfig(cfgTable, id, UpdatedPrice))
  \/ \E id \in DeletedIds : Edited(DeleteConfig(cfgTable, id))

AdminAt(pc) == proc["adm"].pc = pc

\* the handler has sent its response
AdminDone == [IdleAdmin EXCEPT !.edits = proc["adm"].edits, !.saved = proc["adm"].saved]

SetNames == {<<"o">>}
SetProjects == {0, 1}

\* SetTagProject: FirstOrCreate of the tag row
SetFirstOrCreate(name, pid) ==
  /\ AdminAt("idle")
  /\ \E err \in BOOLEAN :
       IF err THEN UNCHANGED <<proc, tagDb>>
       ELSE /\ tagDb' = [tagDb EXCEPT !.tags =
                           IF \E t \in @ : t.name = name THEN @
                           ELSE @ \cup {[name |-> name, project_id |-> 0]}]
            /\ proc' = [proc EXCEPT !["adm"].pc = "save", !["adm"].name = name,
                                    !["adm"].project_id = pid]
  /\ UNCHANGED <<now, idxQuiet, cfgTable, bcc, reg>>

\* SetTagProject: tag.ProjectID = req.ProjectID; h.db.Save(&tag)
SetSave ==
  /\ AdminAt("save")
  /\ \E err \in BOOLEAN :
       IF err
       THEN /\ proc' = [proc EXCEPT !["adm"] = AdminDone]
            /\ UNCHANGED tagDb
       ELSE /\ tagDb' = [tagDb EXCEPT !.tags =
                           {IF t.name = proc["adm"].name
                            THEN [t EXCEPT !.project_id = proc["adm"].project_id]
                            ELSE t : t \in @}]
            /\ proc' = [p \in Procs |->
                          IF p \in Getters THEN [proc[p] EXCEPT !.tagClean = FALSE]
                          ELSE IF p = "adm"
                               THEN [proc[p] EXCEPT !.pc = "reload", !.saved = TRUE]
                          ELSE proc[p]]
  /\ UNCHANGED <<now, idxQuiet, cfgTable, bcc, reg>>

\* the names of the rows of the tags table
TableNames(t) == {r.name : r \in t.tags}

\* LoadFromDB: Pluck("name", &names), before c.mu is taken
ReloadRead(at, inst, after) ==
  /\ AdminAt(at)
  /\ \E err \in BOOLEAN :
       proc' = [proc EXCEPT !["adm"].pc = IF err THEN after ELSE inst,
                            !["adm"].names = IF err THEN {} ELSE TableNames(tagDb)]
  /\ UNCHANGED <<now, idxQuiet, cfgTable, bcc, tagDb, reg>>

\* LoadFromDB: under c.mu the set is replaced by the names read
ReloadInstall(inst, after) ==
  /\ AdminAt(inst)
  /\ reg.mu = "free"
  /\ reg' = [reg EXCEPT !.set = {n \in proc["adm"].names : n # <<>>}]
  /\ proc' = [proc EXCEPT !["adm"].pc = after, !["adm"].names = {}]
  /\ UNCHANGED <<now, idxQuiet, cfgTable, bcc, tagDb>>

\* SetTagProject: h.invalidateBillingCache(), then the response
SetInvalidate ==
  /\ AdminAt("invalidate")
  /\ bcc.mu = "free"
  /\ bcc' = Invalidate(bcc)
  /\ proc' = [proc EXCEPT !["adm"] = AdminDone]
  /\ UNCHANGED <<now, idxQuiet, cfgTable, tagDb, reg>>

IdxTick ==
  /\ now < IdxMaxTime
  /\ now' = now + 1
  /\ UNCHANGED <<idxQuiet, cfgTable, cacheVars>>

InitIndex ==
  /\ InitQuiet
  /\ limiter = PipeLimiter
  /\ flushSize = [tr \in Transports |-> 1]
  /\ InitPipeRest

Get == \E g \in Getters : GetStart(g) \/ GetLock(g) \/ GetFind(g) \/ GetTags(g) \/ GetReturn(g)

SetTagProject ==
  \/ \E name \in SetNames, pid \in SetProjects : SetFirstOrCreate(name, pid)
  \/ SetSave
  \/ ReloadRead("reload", "install", "invalidate")
  \/ ReloadInstall("install", "invalidate")
  \/ SetInvalidate

NextIndex == Get \/ EditConfig \/ SetTagProject \/ IdxTick

SpecIndex == InitIndex /\ [][NextIndex]_vars

\* get under expiry and invalidation alone: the readers, the administrator's
\* SetTagProject and the clock, with the table of rules left as it is
NextGet == Get \/ SetTagProject \/ IdxTick

SpecGet == InitIndex /\ [][NextGet]_vars

\* the same under a scheduler that runs every reader: storage answers the two
\* reads of a rebuild, and sync.RWMutex hands the lock to each waiting writer
\* in turn (a waiter is not overtaken for ever)
GetFair ==
  \A g \in Getters :
    /\ SF_vars(GetLock(g))
    /\ WF_vars(GetFind(g))
    /\ WF_vars(GetTags(g))

SpecGetFair == InitIndex /\ [][NextGet]_vars /\ GetFair

-----------------------------------------------------------------------------
(* The tag registry: the start-up load and backfill, EnsureTag of an        *)
(* ingestion worker, and SetTagProject and DeleteTagProject of an           *)
(* administrator, each with its Reload                                      *)

regQuiet == <<now, idxQuiet, cfgTable>>

\* the tags found in log_entries and billing_entries by the backfill scans
LegacyTags == {<<"o">>, <<"n">>}

Booting == proc["adm"].pc \in {"load", "backfill", "scan", "insert"}

\* tc.LoadFromDB() of the start-up; a failure ends the start-up
BootLoad ==
  /\ AdminAt("load")
  /\ reg' = [reg EXCEPT !.set = {n \in TableNames(tagDb) : n # <<>>}]
  /\ proc' = [proc EXCEPT !["adm"].pc = "backfill"]
  /\ UNCHANGED <<regQuiet, bcc, tagDb>>

\* BackfillFromLegacyTables: c.mu.Lock(); if len(c.set) > 0 return
BackfillLock ==
  /\ AdminAt("backfill")
  /\ reg.mu = "free"
  /\ IF reg.set # {}
     THEN /\ proc' = [proc EXCEPT !["adm"].pc = "idle"]
          /\ UNCHANGED reg
     ELSE /\ proc' = [proc EXCEPT !["adm"].pc = "scan"]
          /\ reg' = [reg EXCEPT !.mu = "adm"]
  /\ UNCHANGED <<regQuiet, bcc, tagDb>>

\* BackfillFromLegacyTables: the two paged scans, then every tag seen is put
\* in c.set
BackfillScan ==
  /\ AdminAt("scan")
  /\ \E err \in BOOLEAN :
       IF err
       THEN /\ reg' = [reg EXCEPT !.mu = "free"]
            /\ proc' = [proc EXCEPT !["adm"].pc = "idle"]
       ELSE /\ reg' = [reg EXCEPT !.set = @ \cup LegacyTags]
            /\ proc' = [proc EXCEPT !["adm"].pc = "insert", !["adm"].names = LegacyTags]
  /\ UNCHANGED <<regQuiet, bcc, tagDb>>

\* the rows CreateInBatches adds with ON CONFLICT DO NOTHING
InsertTags(rows, names) ==
  rows \cup {[name |-> n, project_id |-> 0] : n \in names \ {r.name : r \in rows}}

\* BackfillFromLegacyTables: CreateInBatches(tags, 100), then mu is released
BackfillInsert ==
  /\ AdminAt("insert")
  /\ \E err \in BOOLEAN :
       tagDb' = [tagDb EXCEPT !.tags = IF err THEN @ ELSE InsertTags(@, proc["adm"].names)]
  /\ reg' = [reg EXCEPT !.mu = "free"]
  /\ proc' = [proc EXCEPT !["adm"].pc = "idle", !["adm"].names = {}]
  /\ UNCHANGED <<regQuiet, bcc>>

EnsurerAt(e, pc) == e \in Ensurers /\ proc[e].pc = pc

EnsureNames == {<<"n">>, <<" ", "n">>, <<" ">>}

\* EnsureTag: TrimSpace, the empty name, and the read-locked look at the set
EnsureStart(e, name) ==
  LET n == TrimSpace(name)
  IN /\ EnsurerAt(e, "idle")
     /\ ~Booting
     /\ reg.mu = "free"
     /\ proc' = [proc EXCEPT ![e] =
                   IF n = <<>> \/ n \in reg.set
                   THEN [pc |-> "done", name |-> n, err |-> FALSE]
                   ELSE [pc |-> "lock", name |-> n, err |-> FALSE]]
     /\ UNCHANGED <<regQuiet, bcc, tagDb, reg>>

\* EnsureTag: c.mu.Lock() and the second look at the set
EnsureLock(e) ==
  /\ EnsurerAt(e, "lock")
  /\ reg.mu = "free"
  /\ IF proc[e].name \in reg.set
     THEN /\ proc' = [proc EXCEPT ![e].pc = "done"]
          /\ UNCHANGED reg
     ELSE /\ proc' = [proc EXCEPT ![e].pc = "create"]
          /\ reg' = [reg EXCEPT !.mu = e]
  /\ UNCHANGED <<regQuiet, bcc, tagDb>>

\* EnsureTag: FirstOrCreate under c.mu, then c.set[name] and the unlock
EnsureCreate(e) ==
  /\ EnsurerAt(e, "create")
  /\ \E err \in BOOLEAN :
       IF err
       THEN /\ reg' = [reg EXCEPT !.mu = "free"]
            /\ proc' = [proc EXCEPT ![e].pc = "done", ![e].err = TRUE]
            /\ UNCHANGED tagDb
       ELSE /\ tagDb' = [tagDb EXCEPT !.tags = InsertTags(@, {proc[e].name})]
            /\ reg' = [set |-> reg.set \cup {proc[e].name}, mu |-> "free"]
            /\ proc' = [proc EXCEPT ![e].pc = "done"]
  /\ UNCHANGED <<regQuiet, bcc>>

EnsureReturn(e) ==
  /\ EnsurerAt(e, "done")
  /\ proc' = [proc EXCEPT ![e] = IdleEnsurer]
  /\ UNCHANGED <<regQuiet, bcc, tagDb, reg>>

DeletedProjects == {1, 2}

\* DeleteTagProject: First(&p, id); a billing project is refused
DeleteFirst(id) ==
  /\ AdminAt("idle")
  /\ IF \E p \in tagDb.projects : p.id = id /\ p.type # "billing"
     THEN proc' = [proc EXCEPT !["adm"].pc = "update", !["adm"].project_id = id]
     ELSE UNCHANGED proc
  /\ UNCHANGED <<regQuiet, bcc, tagDb, reg>>

\* DeleteTagProject: Update("project_id", nil) of the project's tags
DeleteUpdate ==
  /\ AdminAt("update")
  /\ \E err \in BOOLEAN :
       IF err
       THEN /\ proc' = [proc EXCEPT !["adm"] = AdminDone]
            /\ UNCHANGED tagDb
       ELSE /\ tagDb' = [tagDb EXCEPT !.tags =
                           {IF t.project_id = proc["adm"].project_id
                            THEN [t EXCEPT !.project_id = 0] ELSE t : t \in @}]
            /\ proc' = [proc EXCEPT !["adm"].pc = "delete"]
  /\ UNCHANGED <<regQuiet, bcc, reg>>

\* DeleteTagProject: h.db.Delete(&p)
DeleteDelete ==
  /\ AdminAt("delete")
  /\ \E err \in BOOLEAN :
       IF err
       THEN /\ proc' = [proc EXCEPT !["adm"] = AdminDone]
            /\ UNCHANGED tagDb
       ELSE /\ tagDb' = [tagDb EXCEPT !.projects =
                           {p \in @ : p.id # proc["adm"].project_id}]
            /\ proc' = [proc EXCEPT !["adm"].pc = "reload2"]
  /\ UNCHANGED <<regQuiet, bcc, reg>>

\* DeleteTagProject: the response after the Reload
DeleteRespond ==
  /\ AdminAt("respond")
  /\ proc' = [proc EXCEPT !["adm"] = AdminDone]
  /\ UNCHANGED <<regQuiet, bcc, tagDb, reg>>

\* tagcache.New at the start-up, over an empty or a filled tags table
InitRegistry ==
  /\ InitQuietCore
  /\ \E tags \in {{}, TagsTable} : tagDb = [tags |-> tags, projects |-> TagProjects]
  /\ reg = NewTagCache
  /\ proc = [IdleProcs EXCEPT !["adm"].pc = "load"]
  /\ InitJobOff
  /\ cfgTable = BillingConfigs
  /\ cfgSecret = <<>>
  /\ ServersUp(Transports)
  /\ limiter = PipeLimiter
  /\ flushSize = [tr \in Transports |-> 1]
  /\ InitPipeRest

Boot == BootLoad \/ BackfillLock \/ BackfillScan \/ BackfillInsert

EnsureTag ==
  \E e \in Ensurers :
    \/ \E name \in EnsureNames : EnsureStart(e, name)
    \/ EnsureLock(e)
    \/ EnsureCreate(e)
    \/ EnsureReturn(e)

DeleteTagProject ==
  \/ \E id \in DeletedProjects : DeleteFirst(id)
  \/ DeleteUpdate
  \/ DeleteDelete
  \/ ReloadRead("reload2", "install2", "respond")
  \/ ReloadInstall("install2", "respond")
  \/ DeleteRespond

NextRegistry == Boot \/ EnsureTag \/ SetTagProject \/ DeleteTagProject

SpecRegistry == InitRegistry /\ [][NextRegistry]_vars

-----------------------------------------------------------------------------
(* The retention job: StartRetentionJob with its start-up pass, its daily   *)
(* ticker and its stop, runRetention with the log loop and the metrics      *)
(* loop, next to HTTP flushes                                               *)

retQuiet == <<now, limVars, ring, ringHist, touched, snap, cfgTable, wireVars, cacheVars,
              wg>>
retPipe == <<flushSize, ch, batch, txn, nEvents, outcome, flushed, billed, lastCall>>

RetentionDays == {-1, 0, 1}

MetricRows == {[id |-> 1, timestamp |-> 1]}

AfterStartNoPass(days) == IF days <= 0 THEN "returned" ELSE "wait"

\* StartRetentionJob: if cfg.LogRetentionDays <= 0 return; else the ticker is
\* made and runRetention is called at once
AfterStart(days) == IF days <= 0 THEN "returned" ELSE "pass"

\* the cutoff of a pass is not before the one of the pass before it
PassCutoffs(last) == {c \in Cutoffs : c >= last}

\* runRetention: if retentionDays <= 0 return; cutoff := now - retentionDays
RunRetention(j) ==
  IF j.days <= 0
  THEN /\ job' = [j EXCEPT !.pc = "wait"]
       /\ UNCHANGED ret
  ELSE \E c \in PassCutoffs(j.cutoff) :
         /\ job' = [j EXCEPT !.pc = "pass", !.passes = @ + 1, !.cutoff = c,
                             !.failed = FALSE]
         /\ ret' = [RetIdle EXCEPT !.pc = "find", !.cutoff = c]

\* StartRetentionJob from its entry to its first select
JobStart ==
  /\ job.pc = "start"
  /\ IF AfterStart(job.days) = "pass"
     THEN RunRetention(job)
     ELSE /\ job' = [job EXCEPT !.pc = AfterStart(job.days)]
          /\ UNCHANGED ret
  /\ UNCHANGED <<retQuiet, retPipe, db, metricsTbl>>

\* the 24 h ticker puts a tick in its channel of capacity 1
TimerFire ==
  /\ job.pc \in {"pass", "wait"}
  /\ ~job.tick
  /\ job' = [job EXCEPT !.tick = TRUE]
  /\ UNCHANGED <<retQuiet, retPipe, db, ret, metricsTbl>>

\* select, case <-ticker.C: runRetention
JobTick ==
  /\ job.pc = "wait"
  /\ job.tick
  /\ job.passes < MaxPasses
  /\ RunRetention([job EXCEPT !.tick = FALSE])
  /\ UNCHANGED <<retQuiet, retPipe, db, metricsTbl>>

\* the context of main is cancelled
CtxCancel ==
  /\ ~job.ctxDone
  /\ job' = [job EXCEPT !.ctxDone = TRUE]
  /\ UNCHANGED <<retQuiet, retPipe, db, ret, metricsTbl>>

\* select, case <-ctx.Done(): return
JobStop ==
  /\ job.pc = "wait"
  /\ job.ctxDone
  /\ job' = [job EXCEPT !.pc = "returned", !.tick = FALSE]
  /\ UNCHANGED <<retQuiet, retPipe, db, ret, metricsTbl>>

EvsOf(rows) == {r.ev : r \in rows}

AfterPageErrorRetry == "find"

\* a failed page query or page delete breaks out of the log loop, and the
\* metrics loop follows it
AfterPageError == "metrics"

\* the log loop left on an error: the expired rows still stored are noted
PageFailed(j) ==
  [j EXCEPT !.failed = TRUE,
            !.left = @ \cup EvsOf(Expired(db.log_entries, ret.cutoff))]

\* runRetention, one turn of the log loop up to the delete: the page query,
\* then DecrByTagDeltas, whose error is logged
PassFindOf(limit) ==
  /\ ret.pc = "find"
  /\ \E findErr \in BOOLEAN :
       IF findErr
       THEN /\ ret' = [ret EXCEPT !.pc = AfterPageError]
            /\ job' = PageFailed(job)
            /\ UNCHANGED db
       ELSE \E page \in PagesOf(db.log_entries, ret.cutoff, limit) :
              IF page = {}
              THEN /\ ret' = [ret EXCEPT !.pc = "metrics"]
                   /\ UNCHANGED <<db, job>>
              ELSE LET deltas == PageDeltas(page)
                   IN \E done \in SUBSET DOMAIN deltas :
                        LET applied == [t \in done |-> deltas[t]]
                        IN /\ db' = [db EXCEPT !.tag_log_counts =
                                       DecrByTagDeltas(@, applied)]
                           /\ ret' = [ret EXCEPT !.pc = "delete",
                                        !.ids = {r.id : r \in page},
                                        !.deltas = applied,
                                        !.before = db.tag_log_counts]
                           /\ UNCHANGED job
  /\ UNCHANGED <<retQuiet, retPipe, metricsTbl>>

PassFind == PassFindOf(retentionBatchSize)

LogsAndBillsDeleted(d, ids) ==
  [d EXCEPT !.log_entries = {r \in @ : r.id \notin ids}, !.billing_entries = {}]

\* Unscoped().Delete(&models.LogEntry{}, ids)
LogsDeleted(d, ids) == [d EXCEPT !.log_entries = {r \in @ : r.id \notin ids}]

AfterPageDeletedEnd == "metrics"

\* after a deleted page (and the pause) the log loop queries the next page
AfterPageDeleted == "find"

\* runRetention: the delete of the page; an error ends the log loop
PassDelete ==
  /\ ret.pc = "delete"
  /\ \E delErr \in BOOLEAN :
       IF delErr
       THEN /\ ret' = [ret EXCEPT !.pc = AfterPageError, !.ids = {}, !.deltas = <<>>,
                                  !.before = <<>>]
            /\ job' = PageFailed(job)
            /\ UNCHANGED db
       ELSE /\ db' = LogsDeleted(db, ret.ids)
            /\ ret' = [ret EXCEPT !.pc = AfterPageDeleted, !.ids = {}, !.deltas = <<>>,
                               !.before = <<>>]
            /\ UNCHANGED job
  /\ UNCHANGED <<retQuiet, retPipe, metricsTbl>>

\* runRetention, one turn of the metrics loop; the pass ends on an error or
\* when no row was deleted, and StartRetentionJob is back at its select
MetricsPage(limit, delErr) ==
  /\ ret.pc = "metrics"
  /\ \E page \in PagesOf(metricsTbl, ret.cutoff, limit) :
       IF delErr \/ page = {}
       THEN /\ ret' = RetIdle
            /\ job' = [job EXCEPT !.pc = "wait"]
            /\ UNCHANGED metricsTbl
       ELSE /\ metricsTbl' = metricsTbl \ page
            /\ UNCHANGED <<ret, job>>
  /\ UNCHANGED <<retQuiet, retPipe, db>>

PassMetrics == \E delErr \in BOOLEAN : MetricsPage(retentionBatchSize, delErr)

RetainKinds == {k \in EventKinds : k.tag # <<"c">>}

InitRetain ==
  /\ InitQuietCore
  /\ InitCache
  /\ cfgTable = BillingConfigs
  /\ cfgSecret = <<>>
  /\ ServersUp(Transports)
  /\ limiter = PipeLimiter
  /\ flushSize = [tr \in Transports |-> 1]
  /\ InitPipeRest
  /\ \E days \in RetentionDays : job = NewJob(days)
  /\ metricsTbl = MetricRows

StartRetentionJob == JobStart \/ TimerFire \/ JobTick \/ CtxCancel \/ JobStop
runRetention == PassFind \/ PassDelete \/ PassMetrics
RetainFlush == (\E kind \in RetainKinds : HttpSubmit(kind, MaxEvents)) \/ Commit("http")

NextRetain == StartRetentionJob \/ runRetention \/ RetainFlush

SpecRetain == InitRetain /\ [][NextRetain]_vars

----------------------------------------------------------------------------
(* A retention pass over tables of more rows than one page holds *)

\* the rows stored before the job starts: LogEntry rows of which the first
\* four are older than the latest cutoff, and MetricsEntry rows likewise
PagedStamps == <<0, 0, 1, 1, 2>>

PagedLogs(n) ==
  InsertLogs({}, [i \in 1..n |->
                    LogEntryOf(MkEvent([timestamp |-> PagedStamps[i], rule_name |-> <<"r">>,
                                        log_line |-> <<"h">>, tag |-> <<"o">>], i))], 1)

PagedMetrics(n) == {[id |-> i, timestamp |-> PagedStamps[i]] : i \in 1..n}

\* the page limit of the two loops stands at PageRows rows in place of
\* retentionBatchSize
InitPaged ==
  /\ InitQuietCore
  /\ InitCache
  /\ cfgTable = BillingConfigs
  /\ cfgSecret = <<>>
  /\ ServersUp(Transports)
  /\ limiter = PipeLimiter
  /\ flushSize = [tr \in Transports |-> 1]
  /\ ch = [tr \in Transports |-> <<>>]
  /\ batch = [tr \in Transports |-> <<>>]
  /\ txn = [w \in Workers |-> NoTxn]
  /\ \E n \in 0..Len(PagedStamps) :
       db = [EmptyDb EXCEPT !.log_entries = PagedLogs(n),
                            !.tag_log_counts = IncrByTagDeltas(<<>>, TagDeltas(PagedLogs(n)))]
  /\ ret = RetIdle
  /\ nEvents = 0
  /\ outcome = <<>>
  /\ flushed = {}
  /\ billed = <<>>
  /\ lastCall = NoCall
  /\ job = NewJob(1)
  /\ \E m \in 0..Len(PagedStamps) : metricsTbl = PagedMetrics(m)

PagedFind == PassFindOf(PageRows)
PagedMetricsLoop == \E delErr \in BOOLEAN : MetricsPage(PageRows, delErr)
PagedPass == PagedFind \/ PassDelete \/ PagedMetricsLoop

NextPaged == StartRetentionJob \/ PagedPass

\* the goroutine of the job is scheduled and storage answers each statement
SpecPaged == InitPaged /\ [][NextPaged]_vars /\ WF_vars(PagedPass)

----------------------------------------------------------------------------
(* Claims about ingestion and the tables *)

\* C1: every event a TCP or UDP listener accepted and enqueued, once its
\* flush committed, has at least one recorded outcome (a LogEntry insert, a
\* BillingEntry increment or an unmatched-ring record), whatever the flush
\* size and the length of the batch handed to ProcessLogBatch.
C1_FlushedEventHasOutcome ==
  \A id \in flushed : outcome[id] # {}

\* the three branches of the loop, as sets of event ids of one call
LoggedEvs(work) == {work.logEntries[i].ev : i \in 1..Len(work.logEntries)}

\* C2: every event of every batch handed to ProcessLogBatch takes exactly
\* one of the three branches (one LogEntry, billing increments, the unmatched
\* ring), and no event ever has both a LogEntry and a billing increment, nor
\* both a durable write and a ring record.
C2_ExactlyOneBranch ==
  /\ \A id \in DOMAIN outcome :
       /\ ~({"log", "bill"} \subseteq outcome[id])
       /\ "ring" \in outcome[id] => outcome[id] = {"ring"}
  /\ \A w \in Workers :
       txn[w].pending =>
         LET L == LoggedEvs(txn[w])
             B == txn[w].billedEvs
             R == txn[w].ringedEvs
         IN /\ L \cap B = {} /\ L \cap R = {} /\ B \cap R = {}
            /\ L \cup B \cup R = Ids(txn[w].logs)
            /\ Cardinality(L) = Len(txn[w].logEntries)

\* billable as the handler's contract states it: some tag of the comma-split,
\* trimmed tag list is a billing tag
BillableTags(tagStr) ==
  LET parts == Split(tagStr, ",")
  IN {TrimSpace(parts[i]) : i \in 1..Len(parts)} \ {<<>>}

CountOf(d, t) == IF t \in DOMAIN d.tag_log_counts THEN d.tag_log_counts[t] ELSE 0

\* C12: an event is billable iff some tag of its comma-split, trimmed tag
\* list is in the billing-tag set; every non-billable event of a committed
\* flush gets exactly one LogEntry, raises TagLogCount by 1 for each tag of
\* its list, and gets no billing increment and no unmatched-ring record.
C12_NonBillableLogged ==
  [][ \A w \in Workers :
        (txn[w].pending /\ ~txn'[w].pending /\ ~lastCall'.err) =>
          LET logs == txn[w].logs
              set == LoadIndex.billingTagSet
              NB == {i \in 1..Len(logs) : BillableTags(logs[i].tag) \cap set = {}}
              new == db'.log_entries \ db.log_entries
              Tags(i) == parseLogTags(logs[i].tag)
              all == UNION {SeqToSet(Tags(i)) : i \in 1..Len(logs)}
          IN /\ \A i \in 1..Len(logs) :
                  isBillingTag(logs[i].tag, LoadIndex) <=> i \notin NB
             /\ \A i \in NB :
                  /\ Cardinality({x \in new : x.ev = logs[i].id}) = 1
                  /\ outcome'[logs[i].id] = {"log"}
             /\ \A t \in all :
                  CountOf(db', t) - CountOf(db, t) =
                    Cardinality({p \in UNION {{<<i, j>> : j \in 1..Len(Tags(i))} : i \in NB} :
                                   Tags(p[1])[p[2]] = t}) ]_vars

\* the tier predicate of a rule, by its match_type
TierHolds(cfg, req) ==
  LET logTags == parseLogTags(req.tag)
  IN CASE cfg.match_type = "tag" -> TagTierMatches(cfg, logTags)
       [] cfg.match_type = "rule_name" -> RuleTierMatches(cfg, logTags, req)
       [] cfg.match_type = "log_line_contains" -> LineTierMatches(cfg, logTags, req)
       [] OTHER -> FALSE

\* the row of billing_entries for a key, as count and amount
RowOf(d, k) ==
  LET rows == {r \in d.billing_entries : SameKey(r, k)}
  IN IF rows = {} THEN [count |-> 0, amount |-> 0]
     ELSE LET r == CHOOSE x \in rows : TRUE IN [count |-> r.count, amount |-> r.amount]

TotalCount(d) ==
  LET rows == d.billing_entries
  IN SumOver([r \in rows |-> r.count], rows)

\* the rules of the table whose tier predicate holds, tier by tier
InTierOrder(cfgs, e) ==
  LET Holds(c) == TierHolds(c, e)
      IsTag(c) == c.match_type = "tag"
      IsRule(c) == c.match_type = "rule_name"
      IsLine(c) == c.match_type = "log_line_contains"
      h == SelectSeq(cfgs, Holds)
  IN SelectSeq(h, IsTag) \o SelectSeq(h, IsRule) \o SelectSeq(h, IsLine)

\* C13: for a billable event the rules billed are exactly the rules of the
\* three tiers whose tier predicate holds, each once, in the order tag,
\* rule_name, log_line_contains; each matched rule adds count 1 and amount
\* unit_price to the aggregate (date, rule.bill_key, event tag), an event
\* matching k rules adds k to the total billed count, and no LogEntry is made.
C13_MatchedRulesBilled ==
  [][ (txn["http"].pending /\ ~txn'["http"].pending /\ ~lastCall'.err) =>
        LET e == txn["http"].logs[1]
            m == InTierOrder(cfgTable, e)
            keys == {BillingKey(e, m[i]) : i \in 1..Len(m)}
            Of(k) == {i \in 1..Len(m) : BillingKey(e, m[i]) = k}
        IN isBillingTag(e.tag, IndexOf(cfgTable)) =>
             /\ matchBillingConfigs(e, IndexOf(cfgTable)) = m
             /\ \A k \in keys :
                  /\ RowOf(db', k).count = RowOf(db, k).count + Cardinality(Of(k))
                  /\ RowOf(db', k).amount =
                       RowOf(db, k).amount + SumOver([i \in Of(k) |-> m[i].unit_price], Of(k))
             /\ TotalCount(db') = TotalCount(db) + Len(m)
             /\ db'.log_entries = db.log_entries ]_vars

\* a billable event no rule of the table matches
Unmatched(req) ==
  /\ BillableTags(req.tag) \cap LoadIndex.billingTagSet # {}
  /\ \A i \in 1..Len(BillingConfigs) : ~TierHolds(BillingConfigs[i], req)

RingCount(q, k) == IF k \in DOMAIN q.items THEN q.items[k].count ELSE 0

\* C14: a billable event that matches no rule gets exactly one unmatched-ring
\* Add for (event tag, rule_name), with count 1 when the key is new, and no
\* LogEntry, no billing increment and no TagLogCount change.
C14_UnmatchedRingOnly ==
  [][ \A w \in Workers :
        (~txn[w].pending /\ txn'[w].pending) =>
          LET logs == txn'[w].logs
              UM == {i \in 1..Len(logs) : Unmatched(logs[i])}
              K(i) == Key(TrimSpace(logs[i].tag), logs[i].rule_name)
          IN /\ \A i \in UM :
                  /\ logs[i].id \in txn'[w].ringedEvs
                  /\ logs[i].id \notin txn'[w].billedEvs
                  /\ logs[i].id \notin LoggedEvs(txn'[w])
                  /\ RingCount(ring', K(i)) =
                       RingCount(ring, K(i)) + Cardinality({j \in UM : K(j) = K(i)})
             /\ \A i \in (1..Len(logs)) \ UM : logs[i].id \notin txn'[w].ringedEvs ]_vars

\* the events a consumer took off its channel
DeqOf(tr) == {p[2] : p \in {q \in deq : q[1] = tr}}

\* the validated events the connection handlers hold at their selects
Held == UNION {Ids(conn[c].rest) : c \in Conns}

\* C15: when the TCP queue is full, a handler holding a validated event waits
\* until the consumer frees a slot and then enqueues it; while the server is
\* not stopping no validated TCP event is discarded because the queue is full.
C15_TcpBlocksNoDrop ==
  /\ [](Len(ch["tcp"]) <= BufSize)
  /\ [](~stop["tcp"] =>
          \A id \in validTcp : id \in Held \cup Ids(ch["tcp"]) \cup DeqOf("tcp"))
  /\ [][ \A c \in Conns :
           (~stop["tcp"] /\ conn[c].pc = "send" /\ conn'[c] # conn[c]) =>
             ch'["tcp"] = Append(ch["tcp"], Head(conn[c].rest)) ]_vars

C15_Witness ==
  /\ ~stop["tcp"]
  /\ Len(ch["tcp"]) = BufSize
  /\ \E c \in Conns : conn[c].pc = "send" /\ Ids(conn[c].rest) \subseteq validTcp

\* recvLoop on one given datagram
RecvEnabled ==
  \A d \in Datagrams :
    (d.kind = "single" /\ Validated(d.logs[1], cfgSecret)) =>
      UdpSelect(ch["udp"], MkWire(d.logs[1], nEvents + 1, "udp")).go

\* C16: the UDP receive loop never waits on enqueue: when the queue is full the
\* incoming event is discarded, the queue is unchanged, and the loop goes on
\* to the next datagram (it returns only when the stop signal is there).
C16_UdpDropsWhenFull ==
  /\ [](udpRecv = "run" => RecvEnabled)
  /\ [][ (nEvents' = nEvents + 1 /\ validTcp' = validTcp /\ Len(ch["udp"]) >= BufSize) =>
           /\ ch' = ch
           /\ batch' = batch
           /\ stop["udp"] \/ udpRecv' = "run" ]_vars

C16_Witness ==
  /\ validTcp = {}
  /\ ~stop["udp"]
  /\ udpRecv = "run"
  /\ Len(ch["udp"]) = BufSize
  /\ nEvents > Cardinality(DeqOf("udp")) + Len(ch["udp"])

\* the secret an event carried: its secret field, or api_key when that is empty
Carried(e) == IF e.secret = <<>> THEN e.api_key ELSE e.secret

\* C17: no event in a TCP or UDP queue has timestamp 0 or an empty log line,
\* and when a shared secret is configured every queued event carried a secret
\* (or, that field empty, an api_key) equal to it.
C17_QueuedEventsValid ==
  \A tr \in Transports : \A i \in 1..Len(ch[tr]) :
    /\ ch[tr][i].timestamp # 0
    /\ ch[tr][i].log_line # <<>>
    /\ cfgSecret # <<>> => Carried(ch[tr][i]) = cfgSecret

C17_Witness ==
  /\ cfgSecret # <<>>
  /\ \E tr \in Transports : \E i \in 1..Len(ch[tr]) :
       ch[tr][i].secret = <<>> /\ ch[tr][i].api_key = cfgSecret

\* a read by connection c of a frame of the class lastRx' names
ReadOf(c, what) == lastRx' # lastRx /\ lastRx'.c = c /\ lastRx'.what = what

Untouched(c) ==
  /\ ch' = ch
  /\ nEvents' = nEvents
  /\ stop' = stop
  /\ \A o \in Conns \ {c} : conn'[o] = conn[o]

\* C18 (amended): a TCP frame whose declared length is 0 or above 4 MiB ends
\* that connection with no event enqueued; a frame whose payload is no JSON
\* event or logs object enqueues no event either, but the handler goes on to
\* its next frame and the connection stays open; the listener and the other
\* connections are not affected by either.
C18_BadLengthClosesMalformedContinues ==
  [][ \A c \in Conns :
        /\ ReadOf(c, "length") => (conn'[c] = NoConn /\ Untouched(c))
        /\ ReadOf(c, "malformed") => (conn'[c] = LoopTop("tcp") /\ Untouched(c)) ]_vars

C18_Witness ==
  /\ ~stop["tcp"]
  /\ lastRx.what = "malformed"
  /\ conn[lastRx.c].pc = "read"
  /\ \E o \in Conns \ {lastRx.c} : conn[o].pc = "send"

\* C18 as stated: a frame of length 0 or above 4 MiB, and a frame with a
\* malformed payload, terminate the connection with no event enqueued, the
\* listener and the other connections running on.
C18_BadFrameClosesConnection ==
  [][ \A c \in Conns :
        (ReadOf(c, "length") \/ ReadOf(c, "malformed")) =>
          (conn'[c] = NoConn /\ Untouched(c)) ]_vars

\* C19: a consumer flushes when its buffer reaches the flush size or when the
\* timer fires: after any dequeued event the buffer holds fewer than
\* flush-size events, a tick hands a non-empty buffer to the processor, each
\* flush leaves a fresh empty buffer, and no empty batch goes to the processor.
C19_FlushOnSizeOrTick ==
  /\ [](\A tr \in Transports : Len(batch[tr]) < flushSize[tr])
  /\ [](\A tr \in Transports : txn[tr].pending => txn[tr].logs # <<>>)
  /\ [][ \A tr \in Transports :
           /\ (ConsumeTick(tr) /\ batch[tr] # <<>>) =>
                (batch'[tr] = <<>> /\ handed' = handed \cup Ids(batch[tr]))
           /\ (~txn[tr].pending /\ txn'[tr].pending) =>
                (batch'[tr] = <<>> /\ Ids(txn'[tr].logs) \subseteq handed') ]_vars

C19_Witness ==
  \E tr \in Transports :
    /\ ~exited[tr]
    /\ txn[tr].pending
    /\ Len(txn[tr].logs) < flushSize[tr]
    /\ batch[tr] = <<>>

\* C20: a consumer that observes the stop signal hands every event of its
\* partial buffer to the processor in one last flush before it exits; no
\* event it had taken off the channel is left behind.
C20_StopFlushesBuffer ==
  /\ [](\A tr \in Transports : exited[tr] => (batch[tr] = <<>> /\ DeqOf(tr) \subseteq handed))
  /\ [][ \A tr \in Transports :
           (exited'[tr] /\ ~exited[tr] /\ batch[tr] # <<>>) =>
             /\ handed' = handed \cup Ids(batch[tr])
             /\ \/ txn'[tr].pending /\ txn'[tr].logs = batch[tr]
                \/ lastCall'.fail = "index" ]_vars

C20_Witness ==
  \E tr \in Transports :
    /\ exited[tr]
    /\ txn[tr].pending
    /\ Len(txn[tr].logs) < flushSize[tr]

HandedBy(tr) == handed \cap DeqOf(tr)

Rising(logs) == \A i, j \in 1..Len(logs) : i < j => logs[i].id < logs[j].id

RulesOf(idx) == [idx EXCEPT !.billingTagSet = {}]

\* C22: once an administrator's create, update or delete of a billing config
\* has returned, a classification that starts afterwards (with no further
\* edit since) gets an index built from the edited rule table, not a copy
\* cached before the edit.
C22_EditedRulesUsed ==
  \A g \in Getters :
    (proc[g].pc = "done" /\ ~proc[g].err /\ proc[g].cfgClean /\ proc["adm"].edits > 0)
      => RulesOf(proc[g].idx) = buildIndexedBillingConfig(cfgTable)

\* C23: once SetTagProject has stored a tag's project and returned, every
\* classification that starts afterwards (with no further reassignment
\* since) gets an index whose billing-tag set is the one of the tags table.
C23_ReassignmentUsed ==
  \A g \in Getters :
    (proc[g].pc = "done" /\ ~proc[g].err /\ proc[g].tagClean /\ proc["adm"].saved)
      => proc[g].idx.billingTagSet = loadBillingTagSet(tagDb.projects, tagDb.tags)

\* C24: when the rebuild of the index fails on a storage read (the rule table
\* or the billing-project tag membership) while a previous index is cached,
\* the cached index stays as it was and the call that triggered the rebuild
\* gets that previous index, not an error.
C24_FailedRebuildServesPrevious ==
  [][ \A g \in Getters :
        (/\ proc[g].pc \in {"find", "tags"}
         /\ proc'[g].pc = "done"
         /\ proc'[g].readFailed # "none"
         /\ bcc.indexed # NilIndex)
          => /\ bcc'.indexed = bcc.indexed
             /\ ~proc'[g].err
             /\ proc'[g].idx = bcc.indexed ]_vars

\* a process whose next step is a storage read or write
InStorageCall(p) ==
  proc[p].pc \in {"find", "tags", "save", "reload", "reload2", "create", "load", "scan",
                  "insert", "update", "delete"}

\* the locks a process holds
Holds(p) == {l \in {"bcc", "reg"} : (IF l = "bcc" THEN bcc.mu ELSE reg.mu) = p}

\* C25: a process that is executing a storage read or write holds no cache
\* or registry lock.
C25_NoLockAcrossStorage ==
  \A p \in Procs : InStorageCall(p) => Holds(p) = {}

\* C26: a name that is in the tag registry (a row of the tags table and a
\* member of the in-memory set) is still in both after every step of
\* EnsureTag, Reload, the backfill, SetTagProject and DeleteTagProject.
C26_RegistryAppendOnly ==
  [][ \A n \in TableNames(tagDb) \cap reg.set :
        n \in TableNames(tagDb') /\ n \in reg'.set ]_vars

CountsKept ==
  \A t \in DOMAIN db.tag_log_counts :
    t \in DOMAIN db'.tag_log_counts /\ db'.tag_log_counts[t] >= db.tag_log_counts[t]

\* C27: with a retention day count of zero or less the job returns at once
\* and no pass ever runs: no LogEntry or MetricsEntry row is deleted and no
\* TagLogCount decremented.  With a positive count the job runs one pass at
\* start-up, then one pass for each tick it takes from the daily ticker, and
\* none after it has returned on the stop signal.
C27_RetentionPassesOnlyWhenPositive ==
  /\ [](job.days <= 0 =>
          /\ job.passes = 0
          /\ ret.pc = "idle"
          /\ job.pc \in {"start", "returned"})
  /\ [](job.pc = "returned" /\ job.days > 0 => job.ctxDone /\ ret.pc = "idle")
  /\ [][ /\ job.days <= 0 =>
              /\ EvsOf(db.log_entries) \subseteq EvsOf(db'.log_entries)
              /\ metricsTbl' = metricsTbl
              /\ CountsKept
         /\ (job.days > 0 /\ job.pc = "start" /\ job'.pc # "start") =>
              (job'.pc = "pass" /\ job'.passes = 1 /\ ret'.pc = "find")
         /\ job'.passes # job.passes =>
              /\ job'.passes = job.passes + 1
              /\ job.pc = "start" \/ (job.pc = "wait" /\ job.tick /\ ~job'.tick)
         /\ (job.pc = "wait" /\ job.tick /\ ~job'.tick /\ job'.pc # "returned") =>
              (job'.passes = job.passes + 1 /\ job'.pc = "pass" /\ ret'.pc = "find")
         /\ job.pc = "returned" =>
              /\ job'.pc = "returned" /\ job'.passes = job.passes
              /\ ret' = ret /\ metricsTbl' = metricsTbl ]_vars

\* the start-up pass and a pass on a tick have run, and the job has returned
C27_Witness ==
  /\ job.days > 0
  /\ job.passes = 2
  /\ job.pc = "returned"
  /\ metricsTbl = {}

\* C28: no step of a retention pass changes a BillingEntry row, and over
\* flushes and retention passes every BillingEntry row stays, with a count
\* and an amount that never decrease.
C28_BillingUntouchedByRetention ==
  [][ /\ (ret' # ret \/ job' # job) => db'.billing_entries = db.billing_entries
      /\ \A r \in db.billing_entries :
           \E r2 \in db'.billing_entries :
             /\ r2.id = r.id /\ SameKey(r, r2)
             /\ r2.count >= r.count /\ r2.amount >= r.amount ]_vars

\* a pass has deleted the LogEntry of a flushed event while a billed row stands
C28_Witness ==
  /\ job.passes >= 1
  /\ db.billing_entries # {}
  /\ \E id \in flushed : "log" \in outcome[id] /\ id \notin EvsOf(db.log_entries)

\* C29: after a page query or a page delete of the log loop has failed, that
\* pass deletes no further LogEntry page (it still runs its metrics loop);
\* and once a later pass has run its log loop to the empty page, none of the
\* rows left by the failed pass is stored any more.
C29_FailedPageStopsLogLoop ==
  /\ [](( /\ job.passes >= 2 /\ ~job.failed
          /\ ret.pc = "metrics" \/ (ret.pc = "idle" /\ job.pc = "wait") )
          => \A r \in db.log_entries : r.ev \in job.left => r.timestamp >= job.cutoff)
  /\ [][ job.failed /\ job'.failed =>
            EvsOf(db.log_entries) \subseteq EvsOf(db'.log_entries) ]_vars

\* a pass failed on a page, a flush committed afterwards, and the next pass
\* deleted the rows that had been left
C29_Witness ==
  /\ job.passes = 2
  /\ ~job.failed
  /\ job.left # {}
  /\ job.left \cap EvsOf(db.log_entries) = {}
  /\ \E id \in flushed : id \notin job.left /\ id \in EvsOf(db.log_entries)

\* C29 as stated: after the failed page the pass stops, deleting no further
\* page of any kind.
C29_FailedPageStopsPass ==
  [][ job.failed /\ job'.failed =>
        /\ EvsOf(db.log_entries) \subseteq EvsOf(db'.log_entries)
        /\ metricsTbl' = metricsTbl ]_vars

\* C30: when Stop of a listener has returned, every worker of that listener
\* has terminated: the acceptor or the receive loop, every per-connection
\* TCP handler, and the batch consumer.
C30_StopWaitsForEveryWorker ==
  \A tr \in wg.stopped :
    /\ exited[tr]
    /\ IF tr = "tcp"
       THEN wg.accept = "exited" /\ \A c \in Conns : conn[c].pc = "closed"
       ELSE udpRecv = "exited"

\* the tags a rule lists in its billing_tag
ListedBy(cfg) ==
  LET parts == Split(cfg.billing_tag, ",")
  IN {TrimSpace(parts[i]) : i \in 1..Len(parts)} \ {<<>>}

\* sub occurs in s as a run of consecutive characters
OccursIn(sub, s) ==
  \E i \in 0..Len(s) :
    i + Len(sub) <= Len(s) /\ SubSeq(s, i + 1, i + Len(sub)) = sub

\* C31: a tag-type rule matches an event exactly when one single tag of the
\* event is both listed in the rule's billing_tag and equal to, or containing,
\* the rule's match_value; a listed tag together with a different tag that
\* contains match_value does not make a match.
C31_TagRuleNeedsOneTagForBoth ==
  txn["http"].pending =>
    LET e == txn["http"].logs[1]
        cfg == cfgTable[1]
        tags == SeqToSet(parseLogTags(e.tag))
        matched == matchBillingConfigs(e, IndexOf(cfgTable))
    IN /\ (matched = <<cfg>>) <=>
            (\E t \in tags : t \in ListedBy(cfg) /\ OccursIn(cfg.match_value, t))
       /\ matched \in {<<>>, <<cfg>>}
       /\ (e.id \in txn["http"].billedEvs) <=> (matched = <<cfg>>)

\* an event with a listed tag and a different tag containing match_value went
\* through the loop and was not billed
C31_Witness ==
  /\ txn["http"].pending
  /\ LET e == txn["http"].logs[1]
         cfg == cfgTable[1]
         tags == SeqToSet(parseLogTags(e.tag))
     IN /\ \E t \in tags : t \in ListedBy(cfg) /\ ~OccursIn(cfg.match_value, t)
        /\ \E t \in tags : t \notin ListedBy(cfg) /\ OccursIn(cfg.match_value, t)
        /\ e.id \notin txn["http"].billedEvs
        /\ txn["http"].agg = <<>>

\* C32: get never returns a cached copy whose age is the TTL or more, nor a
\* copy cleared by Invalidate: it rebuilds from storage first; while the age
\* of the copy is below the TTL and no Invalidate has cleared it, get returns
\* the cached copy without a storage read.
C32_CachedCopyOnlyWhileFresh ==
  [][ \A g \in Getters :
        LET young == bcc.loadedAt # ZeroTime /\ now - bcc.loadedAt < TtlTicks
            kept == bcc.indexed # NilIndex
        IN /\ (proc[g].pc \in {"idle", "lock"} /\ proc'[g].pc = "done") =>
                /\ young /\ kept
                /\ proc'[g].idx = bcc.indexed /\ ~proc'[g].err
                /\ bcc' = bcc
           /\ (proc[g].pc \in {"idle", "lock"} /\ proc'[g].pc # proc[g].pc /\ young /\ kept) =>
                proc'[g].pc = "done"
           /\ (proc[g].pc = "idle" /\ proc'[g].pc = "lock") => ~(young /\ kept)
           /\ (proc[g].pc = "lock" /\ proc'[g].pc = "find") => ~(young /\ kept)
           /\ (proc[g].pc = "tags" /\ proc'[g].pc = "done") =>
                /\ proc'[g].idx = bcc'.indexed /\ bcc'.loadedAt = now
                /\ proc'[g].idx # NilIndex
           /\ (proc[g].pc = "find" /\ proc'[g].pc = "done") =>
                proc'[g].err /\ proc'[g].idx = NilIndex ]_vars

\* a call was served a copy, the copy then expired or was cleared, and a later
\* call got a rebuilt copy that differs from it
C32_Witness ==
  /\ proc["g2"].pc = "done" /\ ~proc["g2"].err /\ proc["g2"].idx # NilIndex
  /\ proc["g1"].pc = "done" /\ ~proc["g1"].err
  /\ proc["g1"].idx = bcc.indexed /\ proc["g1"].idx # proc["g2"].idx
  /\ proc["g1"].readFailed = "none" /\ proc["g2"].readFailed = "none"
  /\ bcc.loadedAt = now /\ bcc.mu = "free"

\* a reader that missed the fast path is waiting for the lock, and the copy in
\* the cache was built at this instant by another reader
WaitsOnRebuilt(g) ==
  /\ proc[g].pc = "lock"
  /\ bcc.indexed # NilIndex /\ bcc.loadedAt = now

\* C33: of the readers that call get concurrently on an expired or cleared
\* index, one at a time rebuilds it; a reader that waited while another
\* rebuilt returns that copy without a second rebuild; and every reader that
\* left the fast path returns in the end.
C33_OneRebuildOthersReuse ==
  /\ [](\A g, h \in Getters :
          (g # h /\ proc[g].pc \in {"find", "tags"}) =>
            (bcc.mu = g /\ proc[h].pc \notin {"find", "tags"}))
  /\ [][ \A g \in Getters :
           (WaitsOnRebuilt(g) /\ proc'[g].pc # proc[g].pc) =>
             /\ proc'[g].pc = "done" /\ ~proc'[g].err
             /\ proc'[g].idx = bcc.indexed
             /\ bcc' = bcc ]_vars
  /\ \A g \in Getters : (proc[g].pc \in {"lock", "find", "tags"}) ~> (proc[g].pc = "done")

\* one reader has rebuilt the index and returned it while the other, which
\* had missed the fast path too, is at the lock
C33_Witness ==
  /\ WaitsOnRebuilt("g2")
  /\ proc["g1"].pc = "done" /\ ~proc["g1"].err /\ proc["g1"].readFailed = "none"
  /\ proc["g1"].idx = bcc.indexed
  /\ bcc.mu = "free"

\* C34: of the concurrent EnsureTag calls with one new name a single one runs
\* the storage create; once a call has returned without error its name is in
\* the tags table and in the in-memory set; a call for a name in the set
\* makes no storage call; a call whose storage write fails leaves the set as
\* it was.
C34_EnsureCreatesOnce ==
  /\ [](\A e \in Ensurers :
          (proc[e].pc = "done" /\ ~proc[e].err /\ proc[e].name # <<>>) =>
            /\ proc[e].name \in reg.set
            /\ proc[e].name \in TableNames(tagDb)
            /\ \A h \in Ensurers \ {e} :
                 ~(proc[h].pc = "create" /\ proc[h].name = proc[e].name))
  /\ [][ \A e \in Ensurers :
           /\ (proc[e].pc \in {"idle", "lock"} /\ proc'[e].pc = "done") =>
                (tagDb' = tagDb /\ reg' = reg)
           /\ (proc[e].pc \in {"idle", "lock"} /\ proc'[e].pc # proc[e].pc
                 /\ proc'[e].name \in reg.set) => proc'[e].pc = "done"
           /\ (proc[e].pc = "create" /\ proc'[e].pc = "done" /\ proc'[e].err) =>
                (reg'.set = reg.set /\ tagDb' = tagDb)
           /\ (proc[e].pc = "create" /\ proc'[e].pc = "done" /\ ~proc'[e].err) =>
                /\ reg'.set = reg.set \cup {proc[e].name}
                /\ proc[e].name \in TableNames(tagDb') ]_vars

\* C35: a retention pass over finitely many expired rows with no storage
\* failure ends; no page deletes more rows than the page limit; at its end no
\* LogEntry and no MetricsEntry row below the cutoff is left, and every row
\* at or above the cutoff is still stored.
C35_PassDeletesAllExpiredInPages ==
  /\ [][ /\ Cardinality(db.log_entries \ db'.log_entries) <= PageRows
         /\ Cardinality(metricsTbl \ metricsTbl') <= PageRows
         /\ \A r \in db.log_entries \ db'.log_entries : r.timestamp < ret.cutoff
         /\ \A r \in metricsTbl \ metricsTbl' : r.timestamp < ret.cutoff
         /\ (MetricsPage(PageRows, FALSE) /\ ret'.pc = "idle" /\ ~job.failed) =>
              /\ Expired(db'.log_entries, ret.cutoff) = {}
              /\ Expired(metricsTbl', ret.cutoff) = {} ]_vars
  /\ (job.pc = "pass") ~> (job.pc = "wait")

\* a pass over more expired rows of each table than one page holds has ended,
\* the rows at the cutoff are stored and none below it
C35_Witness ==
  /\ job.pc = "wait" /\ job.passes = 1 /\ ~job.failed
  /\ job.cutoff = 1
  /\ EvsOf(db.log_entries) = {3, 4, 5}
  /\ {r.id : r \in metricsTbl} = {3, 4, 5}

\* C36: once Stop of a listener has returned, no accepted event is left in the
\* listener's channel or in the consumer's batch: what was enqueued before
\* the stop signal has been handed to the processor.
C36_StopLeavesNoQueuedEvent ==
  \A tr \in wg.stopped :
    /\ wg.queued[tr] \subseteq handed
    /\ wg.queued[tr] \cap Ids(ch[tr]) = {}

\* the tags that stand in stored LogEntry rows or have a TagLogCount row
TagsKnown(d) ==
  UNION {SeqToSet(parseLogTags(r.tag)) : r \in d.log_entries} \cup DOMAIN d.tag_log_counts

\* C37: at every page boundary of retention and after every committed flush,
\* TagLogCount(tag) is the number of stored LogEntry rows whose tag list has
\* that tag, also after a page whose decrement failed and after a page whose
\* delete failed once the decrement was applied.
C37_CountMatchesStoredRows ==
  ret.pc # "delete" =>
    \A t \in TagsKnown(db) :
      (IF t \in DOMAIN db.tag_log_counts THEN db.tag_log_counts[t] ELSE 0)
        = Cardinality({r \in db.log_entries : t \in SeqToSet(parseLogTags(r.tag))})

\* C38: every name in the in-memory set of the tag registry has a row in the
\* tags table, after LoadFromDB, EnsureTag, Reload and the start-up backfill,
\* also after a backfill whose batch insert failed.
C38_SetNamesAreStored ==
  reg.mu = "free" => reg.set \subseteq TableNames(tagDb)

\* the Allow calls i..j of the history that returned true
Granted(i, j) == Cardinality({k \in i..j : calls[k].ok})

\* C39: of the Allow calls made over t seconds from an instant at which the
\* bucket was full, at most C + R*t return true; and the token count is
\* always between 0 and C.
C39_GrantsBoundedByCapacityAndRate ==
  /\ \A b \in Buckets : 0 <= limiter[b].tokens /\ limiter[b].tokens <= limiter[b].capacity
  /\ LET C == limiter["default"].capacity
         R == limiter["default"].rate
         n == Len(calls)
     IN \A i \in 1..n : \A j \in i..n :
          calls[i].full =>
            (Granted(i, j) - C) * TicksPerSec <= R * (calls[j].t - calls[i].t)

\* C3: when the billing upsert, the log insert or the count increment of a
\* ProcessLogBatch call fails, the three tables are afterwards exactly as
\* they were before the call, and the call returns the error.
C3_FlushAllOrNothing ==
  [][ \A w \in Workers :
        (txn[w].pending /\ ~txn'[w].pending /\ lastCall'.fail # "none")
          => (db' = db /\ lastCall'.err) ]_vars

\* a call failed at the count increment, after its transaction had written
C3_Witness ==
  lastCall.fail = "count" /\ lastCall.err /\ lastCall.wrote

\* C4: when N flushes running concurrently each add count 1 and amount a to
\* the same key (date, bill_key, tag), the row holds prior count + N and
\* prior amount + N*a, and there is exactly one row with that key.
C4_ConcurrentIncrementsAdd ==
  /\ \A k \in DOMAIN billed :
       LET rows == {r \in db.billing_entries : SameKey(r, k)}
       IN /\ Cardinality(rows) = 1
          /\ \A r \in rows : r.count = billed[k].count /\ r.amount = billed[k].amount
  /\ \A r \in db.billing_entries : \E k \in DOMAIN billed : SameKey(r, k)

\* two calls were at their transactions together with the same key, and both
\* committed: the row of unit price 100 holds count 2 and amount 200
C4_Witness ==
  /\ lastCall.overtaken /\ ~lastCall.err
  /\ \E r \in db.billing_entries : r.count = 2 /\ r.amount = 200

RowsWithTag(t) == {r \in db.log_entries : t \in SeqToSet(parseLogTags(r.tag))}

\* C5: after K LogEntries carrying a tag were inserted by flushes and all of
\* them were deleted by retention passes, TagLogCount(tag) equals its value
\* before the inserts (0 from the empty store).
C5_CountReturnsAfterRetention ==
  \A t \in DOMAIN db.tag_log_counts :
    RowsWithTag(t) = {} => db.tag_log_counts[t] = 0

\* C6: under any interleaving of insert flushes and retention pages,
\* including a page whose decrement exceeds the stored count, every
\* TagLogCount value is >= 0.
C6_CountNeverNegative ==
  \A t \in DOMAIN db.tag_log_counts : db.tag_log_counts[t] >= 0

\* a page's decrement exceeded the stored count and the count stands at 0
C6_Witness ==
  /\ ret.pc = "delete"
  /\ \E t \in DOMAIN ret.deltas :
       /\ t \in DOMAIN ret.before
       /\ ret.before[t] + ret.deltas[t] < 0
       /\ db.tag_log_counts[t] = 0

----------------------------------------------------------------------------
(* Claims about the limiter *)

\* C7: from a full bucket of capacity C and rate R, of the Allow calls made
\* at one instant the first C return true and every later one false; when
\* the C+1 calls of the burst are followed by a call 1/R second later, that
\* call returns true and a call right after it returns false.
C7_BurstThenOneRefill ==
  LET C == limiter["default"].capacity
      R == limiter["default"].rate
      n == Len(calls)
  IN \A i \in 1..n :
       calls[i].full =>
         /\ \A j \in i..n :
              calls[j].t = calls[i].t => (calls[j].ok <=> (j - i < C))
         /\ ( /\ i + C + 1 <= n
              /\ calls[i + C].t = calls[i].t
              /\ calls[i + C + 1].t = calls[i].t + (TicksPerSec \div R) )
            => /\ calls[i + C + 1].ok
               /\ ( i + C + 2 <= n /\ calls[i + C + 2].t = calls[i + C + 1].t )
                  => ~calls[i + C + 2].ok

C7_Witness ==
  LET C == limiter["default"].capacity
      R == limiter["default"].rate
      n == Len(calls)
  IN \E i \in 1..n :
       /\ calls[i].full
       /\ i + C + 2 <= n
       /\ \A j \in i..(i + C) : calls[j].t = calls[i].t
       /\ ~calls[i + C].ok
       /\ calls[i + C + 1].t = calls[i].t + (TicksPerSec \div R)
       /\ calls[i + C + 1].ok
       /\ calls[i + C + 2].t = calls[i + C + 1].t
       /\ ~calls[i + C + 2].ok

\* C8: a request whose path ends in /api/v1/logs/batch or
\* /api/v1/metrics/batch leaves the default bucket as it was, every other
\* request leaves the batch bucket as it was, and a request is rejected
\* exactly when the bucket of its own kind has no token.
C8_BucketsIndependent ==
  [][ lastReq'.flip # lastReq.flip =>
        LET p == lastReq'.path
            isBatch == \/ HasSuffix(p, LogsBatchPath)
                       \/ HasSuffix(p, MetricsBatchPath)
            used == IF isBatch THEN "batch" ELSE "default"
            other == IF isBatch THEN "default" ELSE "batch"
            had == Refill(limiter[used], now).tokens
        IN /\ limiter'[other] = limiter[other]
           /\ lastReq'.ok <=> had > 0
           /\ limiter'[used].tokens = IF had > 0 THEN had - 1 ELSE 0
    ]_vars

C8_Witness ==
  /\ lastReq.path = PrefixPath \o LogsBatchPath
  /\ ~lastReq.ok
  /\ limiter["batch"].tokens = 0
  /\ limiter["default"].tokens = limiter["default"].capacity

----------------------------------------------------------------------------
(* Claims about the unmatched ring *)

RingPrevKey == Key(ringPrev.tag, ringPrev.rule_name)
RingPrevNoop == ringPrev.tag = <<>> /\ ringPrev.rule_name = <<>>

\* C9: the ring never holds more than maxSize entries, order and items
\* hold the same keys with none listed twice, an Add of a new key to a full
\* ring removes exactly the key inserted earliest among those present, and
\* maxSize+1 distinct keys leave exactly the last maxSize of them.
C9_RingFifoBounded ==
  LET keys == DOMAIN ring.items
      prev == ringPrev.before
      pkeys == DOMAIN ringPrev.before.items
      k == RingPrevKey
      isNew == ringPrev.valid /\ ~RingPrevNoop /\ k \notin pkeys
  IN /\ Cardinality(keys) <= ring.maxSize
     /\ {ring.order[i] : i \in 1..Len(ring.order)} = keys
     /\ Len(ring.order) = Cardinality(keys)
     /\ (isNew /\ Cardinality(pkeys) >= prev.maxSize) =>
          \E old \in pkeys :
            /\ \A x \in pkeys : born[old] <= born[x]
            /\ keys = (pkeys \ {old}) \cup {k}
            /\ \A x \in pkeys \ {old} : ring.items[x] = prev.items[x]
     /\ (isNew /\ Cardinality(pkeys) < prev.maxSize) =>
          /\ keys = pkeys \cup {k}
          /\ \A x \in pkeys : ring.items[x] = prev.items[x]
     /\ (nAdds = ring.maxSize + 1 /\ Cardinality(DOMAIN born) = nAdds) =>
          keys = {x \in DOMAIN born : born[x] >= 2}

C9_Witness ==
  /\ ringPrev.valid /\ ~RingPrevNoop
  /\ RingPrevKey \notin DOMAIN ringPrev.before.items
  /\ Cardinality(DOMAIN ringPrev.before.items) = ring.maxSize
  /\ nAdds = ring.maxSize + 1
  /\ Cardinality(DOMAIN born) = nAdds
  /\ Cardinality(DOMAIN ring.items) = ring.maxSize

\* C10: an Add of a key already in the ring keeps the keys and their order,
\* raises that entry's count by one, stores the new sample (the log line,
\* cut to 500 characters plus "...") and the time of the call, and leaves
\* the other entries alone; the same key added twice to an empty ring is
\* one entry with count 2.
C10_RepeatedKeyAggregates ==
  LET prev == ringPrev.before
      k == RingPrevKey
      l == ringPrev.log_line
  IN /\ (ringPrev.valid /\ k \in DOMAIN prev.items) =>
          /\ DOMAIN ring.items = DOMAIN prev.items
          /\ ring.order = prev.order
          /\ ring.items[k].count = prev.items[k].count + 1
          /\ ring.items[k].log_line_sample =
               IF Len(l) > 500 THEN SubSeq(l, 1, 500) \o <<".", ".", ".">> ELSE l
          /\ ring.items[k].last_seen = ringPrev.at
          /\ ring.items[k].tag = prev.items[k].tag
          /\ ring.items[k].rule_name = prev.items[k].rule_name
          /\ \A x \in (DOMAIN prev.items) \ {k} : ring.items[x] = prev.items[x]
     /\ (nAdds = 2 /\ Cardinality(DOMAIN born) = 1) =>
          /\ Cardinality(DOMAIN ring.items) = 1
          /\ \A x \in DOMAIN ring.items : ring.items[x].count = 2

C10_Witness ==
  /\ ringPrev.valid
  /\ RingPrevKey \in DOMAIN ringPrev.before.items
  /\ nAdds = 2
  /\ Cardinality(DOMAIN born) = 1
  /\ ring.items[RingPrevKey].count = 2
  /\ ring.items[RingPrevKey].log_line_sample
       # ringPrev.before.items[RingPrevKey].log_line_sample
  /\ ring.items[RingPrevKey].last_seen
       # ringPrev.before.items[RingPrevKey].last_seen

====
